---- MODULE Spec2Model ----
(***************************************************************************)
(* Model of the expense-extraction engine of finance-tracker-bot:          *)
(* AmountUtils / DateUtils / CategoryUtils (utils.py), AIProcessor         *)
(* (ai_processor.py), the text handler and fallback parser (main.py) and   *)
(* the category sheet (sheets_manager.py).                                 *)
(*                                                                         *)
(* Text is a sequence of one-character strings, so that lower(), strip(),  *)
(* substring tests and the regular expressions of the source are computed  *)
(* on characters as Python computes them.                                  *)
(***************************************************************************)
EXTENDS Integers, Sequences, FiniteSets, TLC

VARIABLES
    text,       \* the message text received so far (sequence of characters)
    ntok,       \* number of tokens typed into text
    pc,         \* control state of the operation being run
    out,        \* value returned by the operation ([op |-> "none"] before it ran)
    ref,        \* the message date (reference date) <<year, month, day>>
    loc,        \* the location argument of the classifier
    available_categories,   \* the category list in use by the operation
    ai_processor,   \* the module-level AIProcessor (or None) and its attributes
    service,        \* SheetsManager.service: "None", "ok" or "failing"
    m_category,     \* column A of the m_category sheet, header first
    user_name,      \* the actor label of the chat
    response,       \* the last answer of the remote classification service
    expense_data,   \* the record last passed to add_expense
    catatan,        \* the rows of the Catatan sheet below the header
    calls,          \* number of messages handled
    service_state,  \* main.service_state: the four readiness flags
    writers,        \* the add_expense calls in progress: position and next_id
    running,        \* StandaloneKeepAlive.running
    waited,         \* iterations done of the 14-minute wait loop of run
    sleep_seconds   \* the local of run's off-hours sleep

\* the variables of the start-up thread, of the sheet writers and of the
\* keep-alive process
processVars == <<service_state, writers, running, waited, sleep_seconds>>

\* the variables of the text handler and of the processes around it
handlerVars == <<ai_processor, service, m_category, user_name, response, expense_data,
                 catatan, calls, processVars>>

vars == <<text, ntok, pc, out, ref, loc, available_categories, ai_processor, service,
          m_category, user_name, response, expense_data, catatan, calls,
          service_state, writers, running, waited, sleep_seconds>>

\* Largest number of tokens an amount message is composed of.
MaxAmountTokens == 4
\* Largest number of words of a message given to the date resolvers.
MaxDateWords == 3
\* Largest number of words in a day-of-month text.
MaxDayOnlyWords == 2
\* Largest number of words of a message given to the category classifier.
MaxCategoryWords == 3

----------------------------------------------------------------------------
\* Characters and Python's str methods

Digits == <<"0", "1", "2", "3", "4", "5", "6", "7", "8", "9">>
UpperChars == <<"A", "B", "C", "D", "E", "F", "G", "H", "I", "J", "K", "L", "M",
                "N", "O", "P", "Q", "R", "S", "T", "U", "V", "W", "X", "Y", "Z">>
LowerChars == <<"a", "b", "c", "d", "e", "f", "g", "h", "i", "j", "k", "l", "m",
                "n", "o", "p", "q", "r", "s", "t", "u", "v", "w", "x", "y", "z">>

IsDigit(c) == \E i \in 1..10 : Digits[i] = c
DigitVal(c) == (CHOOSE i \in 1..10 : Digits[i] = c) - 1
IsUpper(c) == \E i \in 1..26 : UpperChars[i] = c
IsLower(c) == \E i \in 1..26 : LowerChars[i] = c
IsAlpha(c) == IsUpper(c) \/ IsLower(c)
\* \s of the re module, for the characters the model uses
IsSpace(c) == c \in {" ", "\n", "\t"}

LowerChar(c) == IF IsUpper(c) THEN LowerChars[CHOOSE i \in 1..26 : UpperChars[i] = c] ELSE c
UpperChar(c) == IF IsLower(c) THEN UpperChars[CHOOSE i \in 1..26 : LowerChars[i] = c] ELSE c

\* str.lower()
LowerText(t) == [i \in 1..Len(t) |-> LowerChar(t[i])]

\* str.strip()
Strip(t) ==
    LET keep == {i \in 1..Len(t) : ~IsSpace(t[i])}
    IN  IF keep = {} THEN <<>>
        ELSE LET a == CHOOSE i \in keep : \A j \in keep : i <= j
                 b == CHOOSE i \in keep : \A j \in keep : i >= j
             IN  SubSeq(t, a, b)

\* str.capitalize(): first character upper-cased, the rest lower-cased
Capitalize(t) ==
    [i \in 1..Len(t) |-> IF i = 1 THEN UpperChar(t[i]) ELSE LowerChar(t[i])]

\* lit occurs in t at index k
HasAt(t, k, lit) ==
    /\ k >= 1
    /\ k + Len(lit) - 1 <= Len(t)
    /\ \A n \in 1..Len(lit) : t[k + n - 1] = lit[n]

\* Python's `kw in t` on strings
Contains(t, kw) == \E k \in 1..(Len(t) - Len(kw) + 1) : HasAt(t, k, kw)

AllDigits(t, a, b) == \A i \in a..b : IsDigit(t[i])
AllSpaces(t, a, b) == \A i \in a..b : IsSpace(t[i])

\* int() of a string of ASCII digits
RECURSIVE ToInt(_)
ToInt(ds) ==
    IF ds = <<>> THEN 0
    ELSE 10 * ToInt(SubSeq(ds, 1, Len(ds) - 1)) + DigitVal(ds[Len(ds)])

MinOf(S) == CHOOSE x \in S : \A y \in S : x <= y
MaxOf(S) == CHOOSE x \in S : \A y \in S : x >= y

----------------------------------------------------------------------------
\* re.search results: start = 0 means no match; g1set = FALSE means group 1
\* did not take part in the match (match.group(1) is None).

NoMatch == [start |-> 0, g1 |-> <<>>, g1set |-> FALSE]

\* re.search of a pattern of the shape (\d+)<tail>: ends[i] is the set of
\* last indices j of the digit group, starting at i, after which the tail
\* matches. Leftmost start wins; \d+ is greedy, so the longest group wins.
SearchDigitsThen(t, ends) ==
    LET starts == {i \in 1..Len(t) : ends[i] # {}}
    IN  IF starts = {} THEN NoMatch
        ELSE LET i == MinOf(starts)
             IN  [start |-> i, g1 |-> SubSeq(t, i, MaxOf(ends[i])), g1set |-> TRUE]

\* the digit groups (\d+) that can start at i: i..j all digits
DigitGroupEnds(t, i) ==
    IF ~IsDigit(t[i]) THEN {}
    ELSE LET stop == {j \in i..Len(t) : j = Len(t) \/ ~IsDigit(t[j + 1])}
         IN  i..MinOf(stop)

\* \s*<one of lits> matches right after index j
SpacesThenOneOf(t, j, lits) ==
    \E k \in (j + 1)..(Len(t) + 1) :
        /\ AllSpaces(t, j + 1, k - 1)
        /\ \E l \in lits : HasAt(t, k, l)

L_ribu == <<"r", "i", "b", "u">>
L_rb == <<"r", "b">>
L_k == <<"k">>
L_jt == <<"j", "t">>
L_juta == <<"j", "u", "t", "a">>
L_000 == <<"0", "0", "0">>

\* SearchRibu with the abbreviation 'rb' left out of the alternation
SearchRibu_OnlyRibu(t) ==
    LET ends == [i \in 1..Len(t) |-> {j \in DigitGroupEnds(t, i) : SpacesThenOneOf(t, j, {L_ribu})}]
    IN  SearchDigitsThen(t, ends)

\* r'(\d+)\s*(?:ribu|rb)'
SearchRibu(t) ==
    LET ends == [i \in 1..Len(t) |-> {j \in DigitGroupEnds(t, i) : SpacesThenOneOf(t, j, {L_ribu, L_rb})}]
    IN  SearchDigitsThen(t, ends)

\* r'(\d+)\s*k(?:\s|$)'
SearchK(t) ==
    LET ends == [i \in 1..Len(t) |-> {j \in DigitGroupEnds(t, i) :
                      \E k \in (j + 1)..Len(t) :
                          /\ AllSpaces(t, j + 1, k - 1)
                          /\ t[k] = "k"
                          /\ \/ k = Len(t)
                             \/ (k = Len(t) - 1 /\ t[Len(t)] = "\n")
                             \/ (k < Len(t) /\ IsSpace(t[k + 1]))}]
    IN  SearchDigitsThen(t, ends)

\* r'(\d+)\s*jt|juta': the alternation binds loosest, so this is
\* (\d+)\s*jt  OR  juta; the second alternative has no group 1.
SearchJt(t) ==
    LET ends == [i \in 1..Len(t) |-> {j \in DigitGroupEnds(t, i) : SpacesThenOneOf(t, j, {L_jt})}]
        alt1 == {i \in 1..Len(t) : ends[i] # {}}
        alt2 == {i \in 1..Len(t) : HasAt(t, i, L_juta)}
    IN  IF alt1 \cup alt2 = {} THEN NoMatch
        ELSE LET i == MinOf(alt1 \cup alt2)
             IN  IF i \in alt1
                 THEN [start |-> i, g1 |-> SubSeq(t, i, MaxOf(ends[i])), g1set |-> TRUE]
                 ELSE [start |-> i, g1 |-> <<>>, g1set |-> FALSE]

\* r'(\d+)(?:[.,]\d{3})*': the tail may be empty, so every digit group
\* matches; group 1 is the leading digit group only.
SearchGrouped(t) ==
    LET ends == [i \in 1..Len(t) |-> DigitGroupEnds(t, i)]
    IN  SearchDigitsThen(t, ends)

\* r'(\d+)'
SearchDigits(t) ==
    LET ends == [i \in 1..Len(t) |-> DigitGroupEnds(t, i)]
    IN  SearchDigitsThen(t, ends)

\* re.sub(r'[.,]', '', x)
RemoveSeparators(x) ==
    LET F[n \in 0..Len(x)] ==
            IF n = 0 THEN <<>>
            ELSE IF x[n] \in {".", ","} THEN F[n - 1] ELSE Append(F[n - 1], x[n])
    IN  F[Len(x)]

----------------------------------------------------------------------------
\* AmountUtils.parse_indonesian_amount

Times1000(x) == ToInt(x) * 1000
Times1000000(x) == ToInt(x) * 1000000
StripSeparatorsInt(x) == ToInt(RemoveSeparators(x))
PlainInt(x) == ToInt(x)

\* the converter of the n-th pattern applied to x
Converter(n, x) ==
    CASE n = 1 -> Times1000(x)
      [] n = 2 -> Times1000(x)
      [] n = 3 -> Times1000000(x)
      [] n = 4 -> StripSeparatorsInt(x)
      [] n = 5 -> PlainInt(x)

\* the n-th entry of the list `patterns` searched in t
AmountSearch(n, t) ==
    CASE n = 1 -> SearchRibu(t)
      [] n = 2 -> SearchK(t)
      [] n = 3 -> SearchJt(t)
      [] n = 4 -> SearchGrouped(t)
      [] n = 5 -> SearchDigits(t)

\* One (pattern, converter) pair: [ok |-> TRUE, val |-> n] when the pattern
\* matches and the converter returns; ok = FALSE when there is no match or the
\* converter raises TypeError on a None group (the loop continues).
AmountPattern(n, t) ==
    LET m == AmountSearch(n, t)
    IN  IF m.start = 0 \/ ~m.g1set THEN [ok |-> FALSE, val |-> 0]
        ELSE [ok |-> TRUE, val |-> Converter(n, m.g1)]

\* the loop over `patterns` from the n-th on: the first pattern that matches
\* and converts returns; 0.0 after the last
RECURSIVE AmountFrom(_, _)
AmountFrom(n, t) ==
    IF n > 5 THEN 0
    ELSE LET r == AmountPattern(n, t)
         IN  IF r.ok THEN r.val ELSE AmountFrom(n + 1, t)

\* The value is the float of an integer; the model keeps the integer.
parse_indonesian_amount(txt) == AmountFrom(1, Strip(LowerText(txt)))

----------------------------------------------------------------------------
\* Calendar dates <<year, month, day>> and datetime arithmetic

IsLeap(y) == ((y % 4) = 0 /\ (y % 100) # 0) \/ (y % 400) = 0
DaysInMonth(y, m) ==
    IF m = 2 THEN (IF IsLeap(y) THEN 29 ELSE 28)
    ELSE IF m \in {4, 6, 9, 11} THEN 30 ELSE 31
IsDate(y, m, d) == m \in 1..12 /\ d >= 1 /\ d <= DaysInMonth(y, m)

\* d1 > d2 on datetimes that carry the same time of day
DateAfter(d1, d2) ==
    \/ d1[1] > d2[1]
    \/ d1[1] = d2[1] /\ d1[2] > d2[2]
    \/ d1[1] = d2[1] /\ d1[2] = d2[2] /\ d1[3] > d2[3]

NextDay(dt) ==
    IF dt[3] < DaysInMonth(dt[1], dt[2]) THEN <<dt[1], dt[2], dt[3] + 1>>
    ELSE IF dt[2] < 12 THEN <<dt[1], dt[2] + 1, 1>>
    ELSE <<dt[1] + 1, 1, 1>>
PrevDay(dt) ==
    IF dt[3] > 1 THEN <<dt[1], dt[2], dt[3] - 1>>
    ELSE IF dt[2] > 1 THEN <<dt[1], dt[2] - 1, DaysInMonth(dt[1], dt[2] - 1)>>
    ELSE <<dt[1] - 1, 12, 31>>

\* dt + timedelta(days=n)
RECURSIVE AddDays(_, _)
AddDays(dt, n) ==
    IF n = 0 THEN dt
    ELSE IF n > 0 THEN AddDays(NextDay(dt), n - 1)
    ELSE AddDays(PrevDay(dt), n + 1)

\* days from 2000-01-01 to dt (years 2000 and later)
RECURSIVE DaysBeforeYear(_)
DaysBeforeYear(y) ==
    IF y <= 2000 THEN 0
    ELSE DaysBeforeYear(y - 1) + (IF IsLeap(y - 1) THEN 366 ELSE 365)
RECURSIVE DaysBeforeMonth(_, _)
DaysBeforeMonth(y, m) ==
    IF m <= 1 THEN 0 ELSE DaysBeforeMonth(y, m - 1) + DaysInMonth(y, m - 1)
DayNumber(dt) == DaysBeforeYear(dt[1]) + DaysBeforeMonth(dt[1], dt[2]) + dt[3] - 1

\* datetime.weekday(): Monday = 0 ... Sunday = 6; 2000-01-01 was a Saturday
Weekday(dt) == (DayNumber(dt) + 5) % 7

\* datetime.replace(year=, month=, day=): the new date, or ValueError when
\* it does not exist
ReplaceDate(y, m, d) ==
    IF IsDate(y, m, d) THEN [ok |-> TRUE, date |-> <<y, m, d>>]
    ELSE [ok |-> FALSE, date |-> <<>>]

Pad2(n) == <<Digits[((n \div 10) % 10) + 1], Digits[(n % 10) + 1]>>
Pad4(n) == Pad2(n \div 100) \o Pad2(n % 100)
\* f"{year:04d}-{month:02d}-{day:02d}"
FormatYMD(y, m, d) == Pad4(y) \o <<"-">> \o Pad2(m) \o <<"-">> \o Pad2(d)
\* strftime('%Y-%m-%d')
StrfDate(dt) == FormatYMD(dt[1], dt[2], dt[3])

----------------------------------------------------------------------------
\* Word boundaries and the date patterns of _determine_transaction_date

\* \w of the re module
IsWordChar(c) == IsAlpha(c) \/ IsDigit(c) \/ c = "_"
\* \b between index i - 1 and index i of t
BoundaryBefore(t, i) ==
    (i >= 1 /\ i <= Len(t) /\ IsWordChar(t[i])) #
    (i - 1 >= 1 /\ i - 1 <= Len(t) /\ IsWordChar(t[i - 1]))

IsDateSep(c) == c \in {"/", "-"}

NoGroups == [start |-> 0, g1 |-> <<>>, g2 |-> <<>>, g3 |-> <<>>]

\* the candidate with the leftmost start, then the longest first group,
\* then the longest second group, then the longest third group: the order in
\* which the backtracking matcher tries greedy quantifiers
FirstCandidate(t, cands) ==
    IF cands = {} THEN NoGroups
    ELSE LET Better(c, d) ==
                 \/ c[1] < d[1]
                 \/ c[1] = d[1] /\ c[2] > d[2]
                 \/ c[1] = d[1] /\ c[2] = d[2] /\ c[3] > d[3]
                 \/ c[1] = d[1] /\ c[2] = d[2] /\ c[3] = d[3] /\ c[4] >= d[4]
             c == CHOOSE x \in cands : \A y \in cands : Better(x, y)
             i == c[1]
             a == c[2]
             b == c[3]
             n == c[4]
         IN  [start |-> i,
              g1 |-> SubSeq(t, i, i + a - 1),
              g2 |-> IF b = 0 THEN <<>> ELSE SubSeq(t, i + a + 1, i + a + b),
              g3 |-> IF n = 0 THEN <<>> ELSE SubSeq(t, i + a + b + 2, i + a + b + n + 1)]

\* r'\b(\d{1,2})[/-](\d{1,2})\b'
SearchDayMonth(t) ==
    FirstCandidate(t,
        {c \in (1..Len(t)) \X (1..2) \X (1..2) \X {0} :
            LET i == c[1]
                a == c[2]
                b == c[3]
                e == i + a + b
            IN  /\ e <= Len(t)
                /\ BoundaryBefore(t, i)
                /\ AllDigits(t, i, i + a - 1)
                /\ IsDateSep(t[i + a])
                /\ AllDigits(t, i + a + 1, e)
                /\ BoundaryBefore(t, e + 1)})

\* r'\b(\d{1,2})[/-](\d{1,2})[/-](\d{2,4})\b'
SearchDayMonthYear(t) ==
    FirstCandidate(t,
        {c \in (1..Len(t)) \X (1..2) \X (1..2) \X (2..4) :
            LET i == c[1]
                a == c[2]
                b == c[3]
                n == c[4]
                e == i + a + b + n + 1
            IN  /\ e <= Len(t)
                /\ BoundaryBefore(t, i)
                /\ AllDigits(t, i, i + a - 1)
                /\ IsDateSep(t[i + a])
                /\ AllDigits(t, i + a + 1, i + a + b)
                /\ IsDateSep(t[i + a + b + 1])
                /\ AllDigits(t, i + a + b + 2, e)
                /\ BoundaryBefore(t, e + 1)})

\* one or more white-space characters from index a, up to index b - 1
SpacesBetween(t, a, b) == a < b /\ AllSpaces(t, a, b - 1)

\* r'(?:tanggal|tgl)\s+(\d{1,2})'
SearchDayOnly(t) ==
    LET cands == {c \in (1..Len(t)) \X (1..Len(t)) \X (1..2) :
                    LET i == c[1]
                        k == c[2]
                        a == c[3]
                    IN  /\ k + a - 1 <= Len(t)
                        /\ \E w \in {<<"t", "a", "n", "g", "g", "a", "l">>, <<"t", "g", "l">>} :
                               HasAt(t, i, w) /\ SpacesBetween(t, i + Len(w), k)
                        /\ AllDigits(t, k, k + a - 1)}
    IN  IF cands = {} THEN NoGroups
        ELSE LET i == MinOf({c[1] : c \in cands})
                 k == MinOf({c[2] : c \in {x \in cands : x[1] = i}})
                 a == MaxOf({c[3] : c \in {x \in cands : x[1] = i /\ x[2] = k}})
             IN  [start |-> i, g1 |-> SubSeq(t, k, k + a - 1), g2 |-> <<>>, g3 |-> <<>>]

\* r'(\d{1,2})\s+(?:kemarin|lalu|yang lalu)'
SearchDaysAgo(t) ==
    LET cands == {c \in (1..Len(t)) \X (1..2) :
                    LET i == c[1]
                        a == c[2]
                    IN  /\ i + a - 1 <= Len(t)
                        /\ AllDigits(t, i, i + a - 1)
                        /\ \E k \in (i + a + 1)..Len(t) :
                               /\ SpacesBetween(t, i + a, k)
                               /\ \E w \in {<<"k", "e", "m", "a", "r", "i", "n">>, <<"l", "a", "l", "u">>, <<"y", "a", "n", "g", " ", "l", "a", "l", "u">>} :
                                      HasAt(t, k, w)}
    IN  IF cands = {} THEN NoGroups
        ELSE LET i == MinOf({c[1] : c \in cands})
                 a == MaxOf({c[2] : c \in {x \in cands : x[1] = i}})
             IN  [start |-> i, g1 |-> SubSeq(t, i, i + a - 1), g2 |-> <<>>, g3 |-> <<>>]

----------------------------------------------------------------------------
\* AIProcessor._determine_transaction_date

\* `any(word in text_lower for word in words)`
AnyIn(t, words) == \E w \in words : Contains(t, w)

DP_yesterday == {<<"k", "e", "m", "a", "r", "i", "n">>, <<"k", "m", "r", "n">>, <<"y", "e", "s", "t", "e", "r", "d", "a", "y">>, <<"t", "a", "d", "i", " ", "m", "a", "l", "a", "m">>}
DP_day_before_yesterday == {<<"k", "e", "m", "a", "r", "i", "n", " ", "d", "u", "l", "u">>, <<"l", "u", "s", "a", " ", "k", "e", "m", "a", "r", "i", "n">>, <<"k", "e", "m", "a", "r", "i", "n", " ", "l", "u", "s", "a">>}
DP_tomorrow == {<<"b", "e", "s", "o", "k">>, <<"t", "o", "m", "o", "r", "r", "o", "w">>}
\* the weekday entries of date_patterns, in dictionary order (Monday first)
DP_weekdays ==
    << {<<"s", "e", "n", "i", "n">>, <<"m", "o", "n", "d", "a", "y">>}, {<<"s", "e", "l", "a", "s", "a">>, <<"t", "u", "e", "s", "d", "a", "y">>}, {<<"r", "a", "b", "u">>, <<"w", "e", "d", "n", "e", "s", "d", "a", "y">>},
       {<<"k", "a", "m", "i", "s">>, <<"t", "h", "u", "r", "s", "d", "a", "y">>}, {<<"j", "u", "m", "a", "t">>, <<"f", "r", "i", "d", "a", "y">>}, {<<"s", "a", "b", "t", "u">>, <<"s", "a", "t", "u", "r", "d", "a", "y">>},
       {<<"m", "i", "n", "g", "g", "u">>, <<"s", "u", "n", "d", "a", "y">>} >>
time_context_same_day ==
    {<<"p", "a", "g", "i">>, <<"s", "i", "a", "n", "g">>, <<"s", "o", "r", "e">>, <<"m", "a", "l", "a", "m">>, <<"t", "a", "d", "i">>, <<"b", "a", "r", "u", "s", "a", "n">>}

\* the result of one pass of a loop body: a returned value, or fall through
Return(v) == [ret |-> TRUE, val |-> v]
Continue == [ret |-> FALSE, val |-> <<>>]

\* format_type == 'day_only'
DayOnly(md, m) ==
    LET day == ToInt(m.g1)
    IN  IF ~(1 <= day /\ day <= 31) THEN Continue
        ELSE LET r1 == ReplaceDate(md[1], md[2], day)
             IN  IF ~r1.ok THEN Continue                      \* ValueError
                 ELSE IF DateAfter(r1.date, md)
                 THEN LET r2 == ReplaceDate(md[1], md[2] - 1, day)
                      IN  IF ~r2.ok THEN Continue             \* ValueError
                          ELSE Return(StrfDate(r2.date))
                 ELSE Return(StrfDate(r1.date))

\* format_type == 'days_ago'
DaysAgo(md, m) ==
    LET days_ago == ToInt(m.g1)
    IN  IF days_ago <= 31 THEN Return(StrfDate(AddDays(md, -days_ago))) ELSE Continue

\* format_type == '%d/%m' without the step back to the previous year
DayMonth_NoRollBack(md, m) ==
    LET day == ToInt(m.g1)
        month == ToInt(m.g2)
    IN  IF ~(1 <= day /\ day <= 31 /\ 1 <= month /\ month <= 12) THEN Continue
        ELSE LET r1 == ReplaceDate(md[1], month, day)
             IN  IF ~r1.ok THEN Continue
                 ELSE Return(StrfDate(r1.date))

\* format_type == '%d/%m'
DayMonth(md, m) ==
    LET day == ToInt(m.g1)
        month == ToInt(m.g2)
    IN  IF ~(1 <= day /\ day <= 31 /\ 1 <= month /\ month <= 12) THEN Continue
        ELSE LET r1 == ReplaceDate(md[1], month, day)
             IN  IF ~r1.ok THEN Continue                      \* ValueError
                 ELSE IF DateAfter(r1.date, md)
                 THEN LET r2 == ReplaceDate(md[1] - 1, month, day)
                      IN  IF ~r2.ok THEN Continue             \* ValueError
                          ELSE Return(StrfDate(r2.date))
                 ELSE Return(StrfDate(r1.date))

\* format_type == '%d/%m/%Y'
DayMonthYear(md, m) ==
    LET day == ToInt(m.g1)
        month == ToInt(m.g2)
        y0 == ToInt(m.g3)
        year == IF y0 < 100 THEN (IF y0 < 50 THEN y0 + 2000 ELSE y0 + 1900) ELSE y0
    IN  IF 1 <= day /\ day <= 31 /\ 1 <= month /\ month <= 12 /\ 2020 <= year /\ year <= 2030
        THEN Return(FormatYMD(year, month, day))
        ELSE Continue

\* the n-th entry of date_regex_patterns applied to t
DateRegexPattern(n, md, t) ==
    CASE n = 1 -> LET m == SearchDayMonth(t)
                  IN  IF m.start = 0 THEN Continue ELSE DayMonth(md, m)
      [] n = 2 -> LET m == SearchDayMonthYear(t)
                  IN  IF m.start = 0 THEN Continue ELSE DayMonthYear(md, m)
      [] n = 3 -> LET m == SearchDayOnly(t)
                  IN  IF m.start = 0 THEN Continue ELSE DayOnly(md, m)
      [] n = 4 -> LET m == SearchDaysAgo(t)
                  IN  IF m.start = 0 THEN Continue ELSE DaysAgo(md, m)

\* the loop over date_regex_patterns from the n-th on
RECURSIVE DateRegexFrom(_, _, _)
DateRegexFrom(n, md, t) ==
    IF n > 4 THEN Continue
    ELSE LET r == DateRegexPattern(n, md, t)
         IN  IF r.ret THEN r ELSE DateRegexFrom(n + 1, md, t)

\* the weekday loop counting forward to the next occurrence of the day
WeekdayBack_Forward(md, t) ==
    LET named == {d \in 1..7 : AnyIn(t, DP_weekdays[d])}
    IN  IF named = {} THEN Continue
        ELSE LET target_weekday == MinOf(named) - 1
                 days_back == (target_weekday - Weekday(md)) % 7
             IN  IF days_back = 0 THEN Return(StrfDate(md))
                 ELSE Return(StrfDate(AddDays(md, -days_back)))

\* the loop over the weekday entries: the first weekday (Monday first) one
\* of whose names occurs in t
WeekdayBack(md, t) ==
    LET named == {d \in 1..7 : AnyIn(t, DP_weekdays[d])}
    IN  IF named = {} THEN Continue
        ELSE LET target_weekday == MinOf(named) - 1
                 days_back == (Weekday(md) - target_weekday) % 7
             IN  IF days_back = 0 THEN Return(StrfDate(md))
                 ELSE Return(StrfDate(AddDays(md, -days_back)))

\* "Check for explicit relative dates": yesterday, then day before
\* yesterday, then tomorrow
determine_relative(md, t) ==
    IF AnyIn(t, DP_yesterday) THEN Return(StrfDate(AddDays(md, -1)))
    ELSE IF AnyIn(t, DP_day_before_yesterday) THEN Return(StrfDate(AddDays(md, -2)))
    ELSE IF AnyIn(t, DP_tomorrow) THEN Return(StrfDate(AddDays(md, 1)))
    ELSE Continue

\* ai_date is <<>> for None / no 'date' key; md is the message date without
\* its time zone
determine_transaction_date(ai_date, md, txt) ==
    IF ai_date # <<>> /\ ai_date # <<"n", "u", "l", "l">> THEN ai_date
    ELSE LET t == Strip(LowerText(txt))
             rel == determine_relative(md, t)
             wd == WeekdayBack(md, t)
             rx == DateRegexFrom(1, md, t)
         IN  IF rel.ret THEN rel.val
             ELSE IF wd.ret THEN wd.val
             ELSE IF rx.ret THEN rx.val
             ELSE IF AnyIn(t, time_context_same_day) THEN StrfDate(md)
             ELSE StrfDate(md)

----------------------------------------------------------------------------
\* DateUtils.parse_indonesian_date

\* relative_patterns, in dictionary order, with the day offset of each period
relative_patterns ==
    << [words |-> {<<"k", "e", "m", "a", "r", "i", "n">>, <<"k", "m", "r", "n">>, <<"y", "e", "s", "t", "e", "r", "d", "a", "y">>}, days |-> -1],
       [words |-> {<<"h", "a", "r", "i", " ", "i", "n", "i">>, <<"t", "o", "d", "a", "y">>, <<"t", "a", "d", "i">>, <<"b", "a", "r", "u", "s", "a", "n">>}, days |-> 0],
       [words |-> {<<"b", "e", "s", "o", "k">>, <<"t", "o", "m", "o", "r", "r", "o", "w">>}, days |-> 1],
       [words |-> {<<"k", "e", "m", "a", "r", "i", "n", " ", "d", "u", "l", "u">>, <<"l", "u", "s", "a", " ", "k", "e", "m", "a", "r", "i", "n">>}, days |-> -2] >>

\* weekdays, in dictionary order: name and weekday number
weekdays ==
    << <<<<"m", "o", "n", "d", "a", "y">>, 0>>, <<<<"t", "u", "e", "s", "d", "a", "y">>, 1>>, <<<<"w", "e", "d", "n", "e", "s", "d", "a", "y">>, 2>>, <<<<"t", "h", "u", "r", "s", "d", "a", "y">>, 3>>,
       <<<<"f", "r", "i", "d", "a", "y">>, 4>>, <<<<"s", "a", "t", "u", "r", "d", "a", "y">>, 5>>, <<<<"s", "u", "n", "d", "a", "y">>, 6>>,
       <<<<"s", "e", "n", "i", "n">>, 0>>, <<<<"s", "e", "l", "a", "s", "a">>, 1>>, <<<<"r", "a", "b", "u">>, 2>>, <<<<"k", "a", "m", "i", "s">>, 3>>,
       <<<<"j", "u", "m", "a", "t">>, 4>>, <<<<"s", "a", "b", "t", "u">>, 5>>, <<<<"m", "i", "n", "g", "g", "u">>, 6>> >>

parse_indonesian_date(txt, rd) ==
    LET t == Strip(LowerText(txt))
        periods == {n \in 1..Len(relative_patterns) : AnyIn(t, relative_patterns[n].words)}
        named == {n \in 1..Len(weekdays) : Contains(t, weekdays[n][1])}
    IN  IF periods # {}
        THEN StrfDate(AddDays(rd, relative_patterns[MinOf(periods)].days))
        ELSE IF named # {}
        THEN LET days_back == (Weekday(rd) - weekdays[MinOf(named)][2]) % 7
             IN  IF days_back = 0 THEN StrfDate(rd)
                 ELSE StrfDate(AddDays(rd, -days_back))
        ELSE StrfDate(rd)

----------------------------------------------------------------------------
\* CategoryUtils.match_category_by_keywords

\* category_keywords, in dictionary order
category_keywords ==
    << [category |-> "Food & Dining",
        keywords |-> {<<"m", "a", "k", "a", "n">>, <<"f", "o", "o", "d">>, <<"n", "a", "s", "i">>, <<"a", "y", "a", "m">>, <<"s", "a", "t", "e">>, <<"w", "a", "r", "t", "e", "g">>,
                      <<"r", "e", "s", "t", "o">>, <<"c", "a", "f", "e">>, <<"k", "f", "c">>, <<"m", "c", "d">>, <<"p", "i", "z", "z", "a">>, <<"b", "a", "k", "e", "r", "y">>,
                      <<"b", "r", "e", "a", "d">>, <<"c", "a", "k", "e">>, <<"g", "o", "r", "e", "n", "g">>, <<"s", "o", "p">>, <<"b", "a", "k", "s", "o">>}],
       [category |-> "Transportation",
        keywords |-> {<<"b", "e", "n", "s", "i", "n">>, <<"g", "r", "a", "b">>, <<"g", "o", "j", "e", "k">>, <<"o", "j", "e", "k">>, <<"b", "u", "s">>, <<"t", "a", "x", "i">>,
                      <<"m", "o", "t", "o", "r">>, <<"m", "o", "b", "i", "l">>, <<"p", "e", "r", "t", "a", "m", "i", "n", "a">>, <<"s", "h", "e", "l", "l">>, <<"s", "p", "b", "u">>,
                      <<"p", "a", "r", "k", "i", "r">>, <<"t", "o", "l">>}],
       [category |-> "Shopping & Retail",
        keywords |-> {<<"b", "e", "l", "i">>, <<"b", "e", "l", "a", "n", "j", "a">>, <<"s", "h", "o", "p">>, <<"m", "a", "l", "l">>, <<"a", "l", "f", "a", "m", "a", "r", "t">>,
                      <<"i", "n", "d", "o", "m", "a", "r", "e", "t">>, <<"t", "o", "k", "o">>, <<"h", "y", "p", "e", "r", "m", "a", "r", "t">>, <<"c", "a", "r", "r", "e", "f", "o", "u", "r">>, <<"g", "i", "a", "n", "t">>,
                      <<"s", "u", "p", "e", "r", "m", "a", "r", "k", "e", "t">>}],
       [category |-> "Personal Care & Beauty",
        keywords |-> {<<"s", "a", "l", "o", "n">>, <<"p", "o", "t", "o", "n", "g", " ", "r", "a", "m", "b", "u", "t">>, <<"s", "p", "a">>, <<"m", "a", "s", "s", "a", "g", "e">>, <<"k", "o", "s", "m", "e", "t", "i", "k">>,
                      <<"p", "i", "j", "e", "t">>, <<"b", "a", "r", "b", "e", "r", "s", "h", "o", "p">>, <<"f", "a", "c", "i", "a", "l">>, <<"m", "a", "n", "i", "c", "u", "r", "e">>, <<"p", "e", "d", "i", "c", "u", "r", "e">>}],
       [category |-> "Utilities & Bills",
        keywords |-> {<<"l", "i", "s", "t", "r", "i", "k">>, <<"a", "i", "r">>, <<"i", "n", "t", "e", "r", "n", "e", "t">>, <<"p", "u", "l", "s", "a">>, <<"t", "o", "k", "e", "n">>, <<"p", "l", "n">>,
                      <<"t", "e", "l", "k", "o", "m">>, <<"i", "n", "d", "i", "h", "o", "m", "e">>, <<"w", "i", "f", "i">>, <<"b", "a", "y", "a", "r", " ", "t", "a", "g", "i", "h", "a", "n">>}],
       [category |-> "Health & Medical",
        keywords |-> {<<"d", "o", "k", "t", "e", "r">>, <<"o", "b", "a", "t">>, <<"s", "a", "k", "i", "t">>, <<"r", "u", "m", "a", "h", " ", "s", "a", "k", "i", "t">>, <<"a", "p", "o", "t", "e", "k">>,
                      <<"k", "l", "i", "n", "i", "k">>, <<"m", "e", "d", "i", "c", "a", "l">>, <<"h", "o", "s", "p", "i", "t", "a", "l">>, <<"p", "e", "r", "i", "k", "s", "a">>}],
       [category |-> "Entertainment & Recreation",
        keywords |-> {<<"b", "i", "o", "s", "k", "o", "p">>, <<"f", "i", "l", "m">>, <<"g", "a", "m", "e">>, <<"n", "o", "n", "t", "o", "n">>, <<"k", "a", "r", "a", "o", "k", "e">>, <<"g", "y", "m">>,
                      <<"f", "i", "t", "n", "e", "s", "s">>, <<"c", "i", "n", "e", "m", "a">>, <<"n", "e", "t", "f", "l", "i", "x">>, <<"s", "p", "o", "t", "i", "f", "y">>, <<"m", "a", "i", "n">>}] >>

\* `category in available_categories` on a list
InList(c, list) == \E i \in 1..Len(list) : list[i] = c

\* sum(1 for keyword in keywords if keyword in combined_text)
KeywordScore(keywords, combined_text) ==
    Cardinality({kw \in keywords : Contains(combined_text, kw)})

\* one pass of the scoring loop with `score >= best_score`: the last label
\* wins a tie
ScoreStep_LastWins(best, e, combined_text, categories) ==
    LET score == KeywordScore(e.keywords, combined_text)
    IN  IF InList(e.category, categories) /\ score > 0 /\ score >= best.best_score
        THEN [best_category |-> e.category, best_score |-> score]
        ELSE best

\* one pass of the scoring loop for the table entry e
ScoreStep(best, e, combined_text, categories) ==
    LET score == KeywordScore(e.keywords, combined_text)
    IN  IF InList(e.category, categories) /\ score > best.best_score
        THEN [best_category |-> e.category, best_score |-> score]
        ELSE best

\* the scoring loop over the first n entries of category_keywords:
\* best_category is "" while it is None
RECURSIVE ScoreLoop(_, _, _)
ScoreLoop(n, combined_text, categories) ==
    IF n = 0 THEN [best_category |-> "", best_score |-> 0]
    ELSE ScoreStep(ScoreLoop(n - 1, combined_text, categories),
                   category_keywords[n], combined_text, categories)

match_category_by_keywords(txt, location, categories) ==
    LET combined_text == LowerText(txt) \o <<" ">> \o LowerText(location)
        best == ScoreLoop(Len(category_keywords), combined_text, categories)
    IN  IF best.best_category # "" THEN best.best_category
        ELSE IF categories # <<>>
        THEN categories[Len(categories)]
        ELSE "Others"

----------------------------------------------------------------------------
\* Messages are typed token by token.

\* Length of the longest run of digits in t.
LongestDigitRun(t) ==
    LET run[i \in 0..Len(t)] ==
            IF i = 0 THEN 0 ELSE IF IsDigit(t[i]) THEN run[i - 1] + 1 ELSE 0
    IN  MaxOf({run[i] : i \in 0..Len(t)})

\* Python integers are unbounded and the model's are 32-bit: a message is
\* parsed only when every product the parsers can form stays in range
\* (six digits times 1000, three digits times 1000000).
InRange(t) ==
    /\ LongestDigitRun(t) <= 6
    /\ Contains(LowerText(t), <<"j">>) => LongestDigitRun(t) <= 3

NoResult == [op |-> "none"]

\* the variables an operation on one message does not use
NoDate == <<>>
Idle == /\ ref = NoDate
        /\ loc = <<>>
        /\ available_categories = <<>>

\* the start-up thread, the sheet writers and the keep-alive process are not
\* part of the behaviour
NoProcess ==
    /\ service_state = [sheets_ready |-> FALSE, ai_ready |-> FALSE,
                        vision_ready |-> FALSE, bot_ready |-> FALSE]
    /\ writers = <<>>
    /\ running = TRUE
    /\ waited = 0
    /\ sleep_seconds = 0

\* the text handler is not running
NoHandler ==
    /\ NoProcess
    /\ ai_processor = [exists |-> FALSE, model |-> FALSE, sheets_manager |-> "unset"]
    /\ service = "None"
    /\ m_category = <<>>
    /\ user_name = <<>>
    /\ response = [kind |-> "none"]
    /\ expense_data = [error |-> "none"]
    /\ catatan = <<>>
    /\ calls = 0

\* the user types one more word, separated from the last by a space
TypeWord(words, max) ==
    /\ pc = "typing"
    /\ ntok < max
    /\ \E w \in words : text' = (IF text = <<>> THEN w ELSE text \o <<" ">> \o w)
    /\ ntok' = ntok + 1

-----------------------------------------------------------------------------
\* The Amount Normalizer on its own

AmountTokens ==
    { <<"2", "5">>, <<"0", "0", "0">>, <<".">>, <<",">>, <<" ">>,
      <<"r", "b">>, <<"r", "i", "b", "u">>, <<"k">>, <<"j", "t">>, <<"j", "u", "t", "a">> }

TypeAmountToken ==
    /\ pc = "typing"
    /\ ntok < MaxAmountTokens
    /\ \E tok \in AmountTokens : text' = text \o tok
    /\ ntok' = ntok + 1
    /\ UNCHANGED <<pc, out, ref, loc, available_categories, handlerVars>>

ParseAmount ==
    /\ pc = "typing"
    /\ InRange(text)
    /\ out' = [op |-> "parse_indonesian_amount", val |-> parse_indonesian_amount(text)]
    /\ pc' = "done"
    /\ UNCHANGED <<text, ntok, ref, loc, available_categories, handlerVars>>

InitAmount ==
    /\ text = <<>>
    /\ ntok = 0
    /\ pc = "typing"
    /\ out = NoResult
    /\ Idle
    /\ NoHandler

NextAmount == TypeAmountToken \/ ParseAmount

SpecAmount == InitAmount /\ [][NextAmount]_vars

-----------------------------------------------------------------------------
\* The Date Resolver on its own: both implementations on the same message

\* message dates: a Sunday, a New Year's Day (a Wednesday), the day after a
\* leap day (a Friday), a Saturday before a leap day
RefDates == {<<2025, 8, 10>>, <<2025, 1, 1>>, <<2024, 3, 1>>, <<2024, 2, 10>>}

DateWords ==
    { <<"k", "e", "m", "a", "r", "i", "n">>, <<"d", "u", "l", "u">>, <<"l", "u", "s", "a">>, <<"b", "e", "s", "o", "k">>, <<"t", "a", "d", "i">>, <<"S", "e", "n", "i", "n">>, <<"b", "e", "l", "i">>, <<"1", "5", "/", "8">>,
      <<"m", "i", "n", "g", "g", "u">>, <<"2", "9", "/", "2">>, <<"1", "/", "1">>,
      <<"3", "1", "/", "2", "/", "2", "0", "2", "2">>, <<"5", "/", "3", "/", "2", "2">> }

TypeDateWord ==
    /\ TypeWord(DateWords, MaxDateWords)
    /\ UNCHANGED <<pc, out, ref, loc, available_categories, handlerVars>>

\* _determine_transaction_date(None, message_date, text)
DetermineTransactionDate ==
    /\ pc = "typing"
    /\ out' = [op |-> "_determine_transaction_date",
               val |-> determine_transaction_date(<<>>, ref, text)]
    /\ pc' = "done"
    /\ UNCHANGED <<text, ntok, ref, loc, available_categories, handlerVars>>

\* DateUtils.parse_indonesian_date(text, reference_date)
ParseIndonesianDate ==
    /\ pc = "typing"
    /\ out' = [op |-> "parse_indonesian_date", val |-> parse_indonesian_date(text, ref)]
    /\ pc' = "done"
    /\ UNCHANGED <<text, ntok, ref, loc, available_categories, handlerVars>>

InitDate ==
    /\ text = <<>>
    /\ ntok = 0
    /\ pc = "typing"
    /\ out = NoResult
    /\ ref \in RefDates
    /\ loc = <<>>
    /\ available_categories = <<>>
    /\ NoHandler

NextDate == TypeDateWord \/ DetermineTransactionDate \/ ParseIndonesianDate

SpecDate == InitDate /\ [][NextDate]_vars

-----------------------------------------------------------------------------
\* The Date Resolver on day-of-month texts

\* message dates: in August, in January, in March (after February), on the
\* last day of May
DayOnlyRefDates == {<<2025, 8, 10>>, <<2025, 1, 10>>, <<2025, 3, 10>>, <<2025, 5, 31>>}

DayOnlyWords == { <<"t", "a", "n", "g", "g", "a", "l">>, <<"t", "g", "l">>, <<"5">>, <<"1", "0">>, <<"1", "5">>, <<"3", "0">>, <<"3", "1">>, <<"b", "a", "y", "a", "r">> }

TypeDayOnlyWord ==
    /\ TypeWord(DayOnlyWords, MaxDayOnlyWords)
    /\ UNCHANGED <<pc, out, ref, loc, available_categories, handlerVars>>

InitDayOnly ==
    /\ text = <<>>
    /\ ntok = 0
    /\ pc = "typing"
    /\ out = NoResult
    /\ ref \in DayOnlyRefDates
    /\ loc = <<>>
    /\ available_categories = <<>>
    /\ NoHandler

NextDayOnly == TypeDayOnlyWord \/ DetermineTransactionDate

SpecDayOnly == InitDayOnly /\ [][NextDayOnly]_vars

-----------------------------------------------------------------------------
\* The Category Classifier on its own

\* the fallback list of get_categories
DefaultCategories ==
    << "Food & Dining", "Transportation", "Shopping & Retail", "Utilities & Bills",
       "Health & Medical", "Entertainment & Recreation", "Education & Learning",
       "Personal Care & Beauty", "Housing & Rent", "Others" >>

\* category lists a caller supplies
CategoryLists ==
    { DefaultCategories,
      <<>>,
      << "Transportation" >>,
      << "Others", "Shopping & Retail", "Transportation", "Food & Dining" >>,
      << "Food & Dining", "Transportation", "Lainnya" >> }

CategoryWords == { <<"m", "a", "k", "a", "n">>, <<"b", "e", "n", "s", "i", "n">>, <<"m", "o", "t", "o", "r">>, <<"b", "e", "l", "i">>, <<"M", "A", "L", "L">>, <<"5", "0", "r", "b">> }
Locations == { <<>>, <<"S", "h", "e", "l", "l">> }

TypeCategoryWord ==
    /\ TypeWord(CategoryWords, MaxCategoryWords)
    /\ UNCHANGED <<pc, out, ref, loc, available_categories, handlerVars>>

MatchCategoryByKeywords ==
    /\ pc = "typing"
    /\ out' = [op |-> "match_category_by_keywords",
               val |-> match_category_by_keywords(text, loc, available_categories)]
    /\ pc' = "done"
    /\ UNCHANGED <<text, ntok, ref, loc, available_categories, handlerVars>>

InitCategory ==
    /\ text = <<>>
    /\ ntok = 0
    /\ pc = "typing"
    /\ out = NoResult
    /\ ref = NoDate
    /\ loc \in Locations
    /\ available_categories \in CategoryLists
    /\ NoHandler

NextCategory == TypeCategoryWord \/ MatchCategoryByKeywords

SpecCategory == InitCategory /\ [][NextCategory]_vars

-----------------------------------------------------------------------------
\* Python values held by a dict entry: t is "missing" when the key is absent,
\* "null" for None, "str" for a string (s) and "num" for a number (n).
\* Texts are character sequences; category labels and provenance tags are
\* strings of the model.

Missing == [t |-> "missing", s |-> <<>>, n |-> 0]
Null == [t |-> "null", s |-> <<>>, n |-> 0]
Str(x) == [t |-> "str", s |-> x, n |-> 0]
Num(x) == [t |-> "num", s |-> <<>>, n |-> x]
NoLabel == [t |-> "missing", s |-> "", n |-> 0]
NullLabel == [t |-> "null", s |-> "", n |-> 0]
Label(x) == [t |-> "str", s |-> x, n |-> 0]

\* bool(v): None, '' and 0 are false
Truthy(v) == (v.t = "str" /\ v.s # <<>>) \/ (v.t = "num" /\ v.n # 0)

\* `name or 'Unknown'`
OrUnknown(name) == IF name # <<>> THEN name ELSE <<"U", "n", "k", "n", "o", "w", "n">>

\* {'error': message}
ErrorMarker(message) == [error |-> message]
IsError(d) == "error" \in DOMAIN d

\* outcome of a call: the value returned, or an exception that escapes
Returned(v) == [raised |-> FALSE, val |-> v]
Raised == [raised |-> TRUE]

-----------------------------------------------------------------------------
\* SheetsManager.get_categories and AIProcessor._get_available_categories

\* column A of the m_category sheet, header row first; the service is "None"
\* (no credentials), "ok", or "failing" (every request raises)
get_categories(svc, rows) ==
    IF svc = "None" THEN DefaultCategories
    ELSE IF svc = "failing" THEN DefaultCategories
    ELSE IF Len(rows) <= 1 THEN DefaultCategories
    ELSE Tail(rows)

\* _get_available_categories that keeps the list of an earlier call
get_available_categories_Cached(proc) ==
    IF available_categories # <<>> THEN Returned(available_categories)
    ELSE IF proc.sheets_manager = "SheetsManager" THEN Returned(get_categories(service, m_category))
    ELSE Returned(DefaultCategories)

\* proc.sheets_manager is "unset" when the attribute does not exist (the
\* read raises AttributeError), "None", or "SheetsManager"
get_available_categories(proc) ==
    IF proc.sheets_manager = "unset" THEN Raised
    ELSE IF proc.sheets_manager = "SheetsManager"
    THEN Returned(get_categories(service, m_category))
    ELSE Returned(DefaultCategories)

-----------------------------------------------------------------------------
\* AIProcessor._smart_categorize_fallback

smart_category_keywords ==
    << [category |-> "Food & Dining",
        keywords |-> {<<"m", "a", "k", "a", "n">>, <<"f", "o", "o", "d">>, <<"n", "a", "s", "i">>, <<"a", "y", "a", "m">>, <<"s", "a", "t", "e">>, <<"w", "a", "r", "t", "e", "g">>, <<"r", "e", "s", "t", "o">>, <<"c", "a", "f", "e">>, <<"k", "f", "c">>, <<"m", "c", "d">>}],
       [category |-> "Transportation",
        keywords |-> {<<"b", "e", "n", "s", "i", "n">>, <<"g", "r", "a", "b">>, <<"g", "o", "j", "e", "k">>, <<"o", "j", "e", "k">>, <<"b", "u", "s">>, <<"t", "a", "x", "i">>, <<"m", "o", "t", "o", "r">>, <<"m", "o", "b", "i", "l">>, <<"p", "e", "r", "t", "a", "m", "i", "n", "a">>}],
       [category |-> "Shopping & Retail",
        keywords |-> {<<"b", "e", "l", "i">>, <<"b", "e", "l", "a", "n", "j", "a">>, <<"s", "h", "o", "p">>, <<"m", "a", "l", "l">>, <<"a", "l", "f", "a", "m", "a", "r", "t">>, <<"i", "n", "d", "o", "m", "a", "r", "e", "t">>, <<"t", "o", "k", "o">>}],
       [category |-> "Utilities & Bills",
        keywords |-> {<<"l", "i", "s", "t", "r", "i", "k">>, <<"a", "i", "r">>, <<"i", "n", "t", "e", "r", "n", "e", "t">>, <<"p", "u", "l", "s", "a">>, <<"t", "o", "k", "e", "n">>, <<"p", "l", "n">>, <<"t", "e", "l", "k", "o", "m">>}],
       [category |-> "Health & Medical",
        keywords |-> {<<"d", "o", "k", "t", "e", "r">>, <<"o", "b", "a", "t">>, <<"s", "a", "k", "i", "t">>, <<"r", "u", "m", "a", "h", " ", "s", "a", "k", "i", "t">>, <<"a", "p", "o", "t", "e", "k">>, <<"k", "l", "i", "n", "i", "k">>}],
       [category |-> "Entertainment & Recreation",
        keywords |-> {<<"b", "i", "o", "s", "k", "o", "p">>, <<"f", "i", "l", "m">>, <<"g", "a", "m", "e">>, <<"n", "o", "n", "t", "o", "n">>, <<"k", "a", "r", "a", "o", "k", "e">>, <<"g", "y", "m">>}],
       [category |-> "Education & Learning",
        keywords |-> {<<"s", "e", "k", "o", "l", "a", "h">>, <<"k", "u", "r", "s", "u", "s">>, <<"l", "e", "s">>, <<"b", "u", "k", "u">>, <<"k", "u", "l", "i", "a", "h">>}],
       [category |-> "Personal Care & Beauty",
        keywords |-> {<<"s", "a", "l", "o", "n">>, <<"p", "o", "t", "o", "n", "g", " ", "r", "a", "m", "b", "u", "t">>, <<"s", "p", "a">>, <<"k", "o", "s", "m", "e", "t", "i", "k">>}],
       [category |-> "Housing & Rent",
        keywords |-> {<<"s", "e", "w", "a">>, <<"k", "o", "s", "t">>, <<"k", "o", "n", "t", "r", "a", "k", "a", "n">>, <<"r", "u", "m", "a", "h">>, <<"a", "p", "a", "r", "t", "e", "m", "e", "n">>}] >>

\* the first table label that is in the list and has a keyword in the text
smart_categorize_fallback(txt, location, categories) ==
    LET combined == LowerText(txt) \o <<" ">> \o LowerText(location)
        found == {n \in 1..Len(smart_category_keywords) :
                     /\ InList(smart_category_keywords[n].category, categories)
                     /\ AnyIn(combined, smart_category_keywords[n].keywords)}
    IN  IF found # {} THEN smart_category_keywords[MinOf(found)].category
        ELSE IF categories # <<>> THEN categories[Len(categories)]
        ELSE "Others"

-----------------------------------------------------------------------------
\* The two keyword classifiers on the same text, location and list

\* AIProcessor._smart_categorize_fallback(text, location, available_categories)
SmartCategorizeFallback ==
    /\ pc = "typing"
    /\ out' = [op |-> "_smart_categorize_fallback",
               val |-> smart_categorize_fallback(text, loc, available_categories)]
    /\ pc' = "done"
    /\ UNCHANGED <<text, ntok, ref, loc, available_categories, handlerVars>>

NextClassifiers == TypeCategoryWord \/ MatchCategoryByKeywords \/ SmartCategorizeFallback

SpecClassifiers == InitCategory /\ [][NextClassifiers]_vars

-----------------------------------------------------------------------------
\* The fallback parsers: AIProcessor._fallback_parse and main._fallback_parse

\* r'(\d+)(?:ribu|rb)'
SearchRibuAdjacent(t) ==
    LET ends == [i \in 1..Len(t) |-> {j \in DigitGroupEnds(t, i) : HasAt(t, j + 1, L_ribu) \/ HasAt(t, j + 1, L_rb)}]
    IN  SearchDigitsThen(t, ends)

\* r'(\d+)k'
SearchKAdjacent(t) ==
    LET ends == [i \in 1..Len(t) |-> {j \in DigitGroupEnds(t, i) : HasAt(t, j + 1, L_k)}]
    IN  SearchDigitsThen(t, ends)

\* r'(\d+)(?:000)': the digit group gives back digits until '000' follows it
SearchThousands(t) ==
    LET ends == [i \in 1..Len(t) |-> {j \in DigitGroupEnds(t, i) : HasAt(t, j + 1, L_000)}]
    IN  SearchDigitsThen(t, ends)

\* the list amount_patterns, in order
FallbackPattern(n, t) ==
    CASE n = 1 -> SearchRibuAdjacent(t)
      [] n = 2 -> SearchKAdjacent(t)
      [] n = 3 -> SearchThousands(t)
      [] n = 4 -> SearchDigits(t)

\* the loop over amount_patterns from the n-th on; t is text.lower()
RECURSIVE FallbackAmountFrom(_, _)
FallbackAmountFrom(n, t) ==
    IF n > 4 THEN 0
    ELSE LET match == FallbackPattern(n, t)
         IN  IF match.start = 0 THEN FallbackAmountFrom(n + 1, t)
             ELSE LET num == ToInt(match.g1)
                  IN  IF Contains(t, L_ribu) \/ Contains(t, L_rb) THEN num * 1000
                      ELSE IF Contains(t, L_k) THEN num * 1000
                      ELSE num

\* "Category detection" of both fallback parsers
FallbackCategory(t) ==
    IF AnyIn(t, {<<"m", "a", "k", "a", "n">>, <<"b", "e", "l", "i">>, <<"f", "o", "o", "d">>, <<"g", "o", "r", "e", "n", "g">>}) THEN "Food"
    ELSE IF AnyIn(t, {<<"b", "e", "n", "s", "i", "n">>, <<"g", "r", "a", "b">>, <<"g", "o", "j", "e", "k">>}) THEN "Transport"
    ELSE "Other"

\* text[:50]
First50(txt) == SubSeq(txt, 1, IF Len(txt) < 50 THEN Len(txt) ELSE 50)

\* an expense record: the keys of the dict
ExpenseRecord(description, amount, location, category, date, transaction_date, input_by) ==
    [description |-> description, amount |-> amount, location |-> location,
     category |-> category, date |-> date, transaction_date |-> transaction_date,
     input_by |-> input_by, source |-> NoLabel]

AIProcessor_fallback_parse(txt, message_date, user) ==
    ExpenseRecord(Str(Capitalize(First50(txt))),
                  Num(FallbackAmountFrom(1, LowerText(txt))),
                  Str(<<"U", "n", "k", "n", "o", "w", "n">>),
                  Label(FallbackCategory(LowerText(txt))),
                  Missing,
                  Str(determine_transaction_date(<<>>, message_date, txt)),
                  Str(OrUnknown(user)))

main_fallback_parse(txt, message_date, user) ==
    ExpenseRecord(Str(Capitalize(First50(txt))),
                  Num(FallbackAmountFrom(1, LowerText(txt))),
                  Str(<<"U", "n", "k", "n", "o", "w", "n">>),
                  Label(FallbackCategory(LowerText(txt))),
                  Missing,
                  Str(StrfDate(message_date)),
                  Str(OrUnknown(user)))

-----------------------------------------------------------------------------
\* AIProcessor.parse_expense_text

\* `except Exception` that lets the exception escape
ExceptException_Propagates(r, txt, message_date, user) == r

\* `except Exception as e: return self._fallback_parse(...)`
ExceptException(r, txt, message_date, user) ==
    IF r.raised THEN Returned(AIProcessor_fallback_parse(txt, message_date, user)) ELSE r

\* "Validate category against available categories": d.get('location', '')
\* is '' only when the key is absent; .lower() of None or of a number raises
ValidateCategory(d, txt, categories) ==
    IF d.category.t = "str" /\ InList(d.category.s, categories) THEN Returned(d)
    ELSE LET location == IF d.location.t = "missing" THEN Str(<<>>) ELSE d.location
         IN  IF location.t # "str" THEN Raised
             ELSE Returned([d EXCEPT !.category =
                               Label(smart_categorize_fallback(txt, location.s, categories))])

\* `if d.get(key): d[key] = d[key].capitalize()`; a number has no capitalize
CapitalizeEntry(v) ==
    IF ~Truthy(v) THEN Returned(v)
    ELSE IF v.t = "str" THEN Returned(Str(Capitalize(v.s)))
    ELSE Raised

\* _determine_transaction_date on the 'date' entry of the guess: a truthy
\* value other than "null" is returned as it is
TransactionDate(date, message_date, txt) ==
    IF Truthy(date) /\ date # Str(<<"n", "u", "l", "l">>) THEN date
    ELSE Str(determine_transaction_date(<<>>, message_date, txt))

\* the branch `if json_match:` on the decoded object d
AcceptGuess(d, txt, message_date, user, categories) ==
    LET c == ValidateCategory(d, txt, categories)
    IN  IF c.raised THEN Raised
        ELSE LET description == CapitalizeEntry(c.val.description)
                 location == CapitalizeEntry(c.val.location)
             IN  IF description.raised \/ location.raised THEN Raised
                 ELSE Returned([c.val EXCEPT
                          !.description = description.val,
                          !.location = location.val,
                          !.transaction_date = TransactionDate(c.val.date, message_date, txt),
                          !.input_by = Str(OrUnknown(user))])

\* the try block from the remote request on. The response is "raise" (the
\* request or response.text raises), "no_json" (no '{...}' in the text),
\* "malformed" (json.loads raises) or "json" (a decoded object)
TryBody(resp, txt, message_date, user, categories) ==
    IF resp.kind = "raise" THEN Raised
    ELSE IF resp.kind = "no_json"
    THEN Returned(AIProcessor_fallback_parse(txt, message_date, user))
    ELSE IF resp.kind = "malformed" THEN Raised
    ELSE AcceptGuess(resp.data, txt, message_date, user, categories)

\* the call up to the remote request: it returns without a request (remote
\* is FALSE) or waits for the response with the list it fetched
parse_expense_text_begin(proc, txt, message_date, user) ==
    IF ~proc.model
    THEN [remote |-> FALSE, ret |-> Returned(ErrorMarker("Gemini API not initialized"))]
    ELSE LET fetched == get_available_categories(proc)
         IN  IF fetched.raised
             THEN [remote |-> FALSE, ret |-> ExceptException(Raised, txt, message_date, user)]
             ELSE [remote |-> TRUE, cats |-> fetched.val]

\* the call from the response on
parse_expense_text_respond(resp, txt, message_date, user, categories) ==
    ExceptException(TryBody(resp, txt, message_date, user, categories), txt, message_date, user)

-----------------------------------------------------------------------------
\* SheetsManager.add_expense and main.handle_text

\* _get_next_id over the rows of Catatan below the header
get_next_id(rows) ==
    IF Len(rows) = 0 THEN 1
    ELSE MaxOf({0} \cup {rows[i].id : i \in 1..Len(rows)}) + 1

\* expense_data.get(key, default)
GetOr(v, default) == IF v.t = "missing" THEN default ELSE v

\* row_data; the default date is the current day, taken to be the message's
row_data(id, e, today) ==
    [id |-> id,
     transaction_date |-> GetOr(e.transaction_date, Str(StrfDate(today))),
     description |-> GetOr(e.description, Str(<<>>)),
     amount |-> GetOr(e.amount, Num(0)),
     category |-> GetOr(e.category, Label("Other")),
     location |-> GetOr(e.location, Str(<<"U", "n", "k", "n", "o", "w", "n">>)),
     input_by |-> GetOr(e.input_by, Str(<<"U", "n", "k", "n", "o", "w", "n">>))]

NoExpense == ErrorMarker("none")
NoResponse == [kind |-> "none", data |-> NoExpense]

\* handle_text from the outcome of the parse on: the fallback on an error
\* marker, the provenance tag, the write to the sheet. An exception that
\* escaped the parser ends the handler with an error reply.
HandleRest(ret, txt) ==
    IF ret.raised THEN UNCHANGED <<expense_data, catatan>>
    ELSE LET data == IF IsError(ret.val)
                     THEN [main_fallback_parse(txt, ref, user_name)
                              EXCEPT !.source = Label("Fallback Parser")]
                     ELSE [ret.val EXCEPT !.source = Label("Gemini AI")]
         IN  /\ expense_data' = data
             /\ catatan' = IF service = "ok"
                           THEN Append(catatan, row_data(get_next_id(catatan), data, ref))
                           ELSE catatan

-----------------------------------------------------------------------------
\* The text handler: messages arrive one at a time, the remote service
\* answers each request, and the category sheet is edited in between.

\* Largest number of messages handled in one behaviour.
MaxCalls == 2

Messages == { <<"h", "a", "l", "o">>, <<"k", "e", "m", "a", "r", "i", "n", " ", "b", "e", "n", "s", "i", "n", " ", "5", "0", "k">> }
UserNames == { <<>>, <<"b", "u", "d", "i">> }

\* the module-level ai_processor: None, built without an API key, or built
\* with one; its sheets_manager attribute is not assigned by __init__
Processors ==
    { [exists |-> FALSE, model |-> FALSE, sheets_manager |-> "unset"],
      [exists |-> TRUE, model |-> FALSE, sheets_manager |-> "unset"],
      [exists |-> TRUE, model |-> TRUE, sheets_manager |-> "unset"],
      [exists |-> TRUE, model |-> TRUE, sheets_manager |-> "None"],
      [exists |-> TRUE, model |-> TRUE, sheets_manager |-> "SheetsManager"] }

\* contents of column A of m_category
SheetContents ==
    { << "Category" >>,
      << "Category", "Makanan", "Transportation", "Lainnya" >> }

\* a decoded JSON object of the remote service
Guess(description, amount, location, category, date) ==
    ExpenseRecord(description, amount, location, category, date, Missing, Missing)

RemoteGuesses ==
    { Guess(Str(<<"a", "y", "a", "m", " ", "g", "o", "r", "e", "n", "g">>), Num(25000), Str(<<"w", "a", "r", "u", "n", "g">>), Label("Food & Dining"), Null),
      Guess(Str(<<"b", "e", "n", "s", "i", "n">>), Num(50000), Missing, Label("Groceries"), Str(<<"n", "u", "l", "l">>)),
      Guess(Str(<<"b", "e", "n", "s", "i", "n">>), Missing, Str(<<"s", "h", "e", "l", "l">>), Label("Transportation"), Str(<<"2", "0", "2", "5", "-", "0", "8", "-", "0", "9">>)),
      Guess(Str(<<"a", "y", "a", "m">>), Num(-5), Str(<<"w", "a", "r", "u", "n", "g">>), Label("Transportation"), Null),
      Guess(Num(7), Str(<<"2", "5", "r", "b">>), Null, NullLabel, Null) }

RemoteResponses ==
    { [kind |-> k, data |-> NoExpense] : k \in {"raise", "no_json", "malformed"} }
        \cup { [kind |-> "json", data |-> d] : d \in RemoteGuesses }

\* a message that is answered without a remote request
HandleText ==
    /\ pc = "idle"
    /\ calls < MaxCalls
    /\ \E txt \in Messages :
          LET begin == parse_expense_text_begin(ai_processor, txt, ref, user_name)
              ret == IF ai_processor.exists THEN begin.ret
                     ELSE Returned(ErrorMarker("AI processor not available"))
          IN  /\ ai_processor.exists => ~begin.remote
              /\ text' = txt
              /\ out' = [op |-> IF ai_processor.exists THEN "parse_expense_text"
                                ELSE "handle_text",
                         ret |-> ret]
              /\ HandleRest(ret, txt)
    /\ response' = NoResponse
    /\ calls' = calls + 1
    /\ UNCHANGED <<ntok, pc, ref, loc, available_categories, ai_processor, service,
                   m_category, user_name, processVars>>

\* a message for which parse_expense_text fetches the list and sends the request
HandleTextBegin ==
    /\ pc = "idle"
    /\ calls < MaxCalls
    /\ ai_processor.exists
    /\ \E txt \in Messages :
          LET begin == parse_expense_text_begin(ai_processor, txt, ref, user_name)
          IN  /\ begin.remote
              /\ text' = txt
              /\ available_categories' = begin.cats
    /\ pc' = "remote"
    /\ UNCHANGED <<ntok, out, ref, loc, ai_processor, service, m_category, user_name,
                   response, expense_data, catatan, calls, processVars>>

\* the remote service answers; the handler runs to its end
RemoteResponds ==
    /\ pc = "remote"
    /\ \E resp \in RemoteResponses :
          LET ret == parse_expense_text_respond(resp, text, ref, user_name, available_categories)
          IN  /\ response' = resp
              /\ out' = [op |-> "parse_expense_text", ret |-> ret]
              /\ HandleRest(ret, text)
    /\ pc' = "idle"
    /\ calls' = calls + 1
    /\ UNCHANGED <<text, ntok, ref, loc, available_categories, ai_processor, service,
                   m_category, user_name, processVars>>

\* the owner of the sheet rewrites the category column
EditCategories ==
    /\ m_category' \in SheetContents \ {m_category}
    /\ UNCHANGED <<text, ntok, pc, out, ref, loc, available_categories, ai_processor,
                   service, user_name, response, expense_data, catatan, calls, processVars>>

InitHandle ==
    /\ text = <<>>
    /\ ntok = 0
    /\ pc = "idle"
    /\ out = NoResult
    /\ ref = <<2025, 8, 10>>
    /\ loc = <<>>
    /\ available_categories = <<>>
    /\ ai_processor \in Processors
    /\ service \in {"None", "ok", "failing"}
    /\ m_category = << "Category" >>
    /\ user_name \in UserNames
    /\ response = NoResponse
    /\ expense_data = NoExpense
    /\ catatan = <<>>
    /\ calls = 0
    /\ NoProcess

NextHandle == HandleText \/ HandleTextBegin \/ RemoteResponds \/ EditCategories

SpecHandle == InitHandle /\ [][NextHandle]_vars

-----------------------------------------------------------------------------
\* VisionProcessor._extract_receipt_date_smart

\* the first index from p on that holds no white space (Len(t) + 1 if none)
RECURSIVE SkipSpaces(_, _)
SkipSpaces(t, p) ==
    IF p > Len(t) \/ ~IsSpace(t[p]) THEN p ELSE SkipSpaces(t, p + 1)

\* the month alternation of the first pattern, in its order, with month_map
month_map ==
    << <<<<"j", "a", "n">>, 1>>, <<<<"f", "e", "b">>, 2>>, <<<<"m", "a", "r">>, 3>>,
       <<<<"a", "p", "r">>, 4>>, <<<<"m", "a", "y">>, 5>>, <<<<"j", "u", "n">>, 6>>,
       <<<<"j", "u", "l">>, 7>>, <<<<"a", "u", "g">>, 8>>, <<<<"s", "e", "p">>, 9>>,
       <<<<"o", "c", "t">>, 10>>, <<<<"n", "o", "v">>, 11>>, <<<<"d", "e", "c">>, 12>>,
       <<<<"j", "a", "n", "u", "a", "r", "i">>, 1>>,
       <<<<"f", "e", "b", "r", "u", "a", "r", "i">>, 2>>,
       <<<<"m", "a", "r", "e", "t">>, 3>>, <<<<"a", "p", "r", "i", "l">>, 4>>,
       <<<<"m", "e", "i">>, 5>>, <<<<"j", "u", "n", "i">>, 6>>, <<<<"j", "u", "l", "i">>, 7>>,
       <<<<"a", "g", "u", "s", "t", "u", "s">>, 8>>,
       <<<<"s", "e", "p", "t", "e", "m", "b", "e", "r">>, 9>>,
       <<<<"o", "k", "t", "o", "b", "e", "r">>, 10>>,
       <<<<"n", "o", "v", "e", "m", "b", "e", "r">>, 11>>,
       <<<<"d", "e", "s", "e", "m", "b", "e", "r">>, 12>>
    >>

\* r'(\d{1,2})\s+(jan|feb|...|desember)\s+(\d{2,4})' with re.IGNORECASE; g2
\* is the number month_map gives the matched name, written with two digits
SearchMonthName(t) ==
    LET low == LowerText(t)
        \* <<start, digits>> of a day followed by white space
        days == {d \in (1..Len(t)) \X (1..2) :
                    /\ d[1] + d[2] - 1 <= Len(t)
                    /\ AllDigits(t, d[1], d[1] + d[2] - 1)
                    /\ SkipSpaces(t, d[1] + d[2]) > d[1] + d[2]}
        cands == {c \in days \X (1..Len(month_map)) \X (2..4) :
                    LET w == month_map[c[2]][1]
                        n == c[3]
                        k == SkipSpaces(t, c[1][1] + c[1][2])
                        y == SkipSpaces(t, k + Len(w))
                    IN  /\ HasAt(low, k, w)
                        /\ y > k + Len(w)
                        /\ y + n - 1 <= Len(t)
                        /\ AllDigits(t, y, y + n - 1)}
    IN  IF cands = {} THEN NoGroups
        ELSE LET i == MinOf({c[1][1] : c \in cands})
                 a == MaxOf({c[1][2] : c \in {x \in cands : x[1][1] = i}})
                 w == MinOf({c[2] : c \in {x \in cands : x[1] = <<i, a>>}})
                 n == MaxOf({c[3] : c \in {x \in cands : x[1] = <<i, a>> /\ x[2] = w}})
                 y == SkipSpaces(t, SkipSpaces(t, i + a) + Len(month_map[w][1]))
             IN  [start |-> i, g1 |-> SubSeq(t, i, i + a - 1),
                  g2 |-> Pad2(month_map[w][2]), g3 |-> SubSeq(t, y, y + n - 1)]

\* three digit groups of the given lengths with one of '/', '-' between
\* them, starting at c[1]
ThreeGroupsAt(t, c) ==
    LET i == c[1]
        a == c[2]
        b == c[3]
        n == c[4]
    IN  /\ i + a + b + n + 1 <= Len(t)
        /\ AllDigits(t, i, i + a - 1)
        /\ IsDateSep(t[i + a])
        /\ AllDigits(t, i + a + 1, i + a + b)
        /\ IsDateSep(t[i + a + b + 1])
        /\ AllDigits(t, i + a + b + 2, i + a + b + n + 1)

\* r'(\d{1,2})[/-](\d{1,2})[/-](\d{2,4})'
SearchDmy(t) ==
    FirstCandidate(t, {c \in (1..Len(t)) \X (1..2) \X (1..2) \X (2..4) : ThreeGroupsAt(t, c)})

\* r'(\d{2,4})[/-](\d{1,2})[/-](\d{1,2})'
SearchYmd(t) ==
    FirstCandidate(t, {c \in (1..Len(t)) \X (2..4) \X (1..2) \X (1..2) : ThreeGroupsAt(t, c)})

\* r'(\d{1,2}[/-]\d{1,2}[/-]\d{2,4})\s+\d{1,2}:\d{2}'; the groups are the
\* parts of re.split(r'[/-]', match.group(1))
SearchDateTime(t) ==
    FirstCandidate(t,
        {c \in (1..Len(t)) \X (1..2) \X (1..2) \X (2..4) :
            /\ ThreeGroupsAt(t, c)
            /\ LET e == c[1] + c[2] + c[3] + c[4] + 2
                   h == SkipSpaces(t, e)
               IN  /\ h > e
                   /\ \E d \in 1..2 :
                         /\ h + d + 2 <= Len(t)
                         /\ AllDigits(t, h, h + d - 1)
                         /\ t[h + d] = ":"
                         /\ AllDigits(t, h + d + 1, h + d + 2)})

\* "if year < 100: year += 2000 if year < 50 else 1900" and the range check
ReceiptDateOf(day, month, year) ==
    LET y == IF year < 100 THEN (IF year < 50 THEN year + 2000 ELSE year + 1900) ELSE year
    IN  IF 1 <= day /\ day <= 31 /\ 1 <= month /\ month <= 12 /\ 2000 <= y /\ y <= 2030
        THEN Return(FormatYMD(y, month, day))
        ELSE Continue

\* one pass of the loop over date_patterns
ReceiptDatePattern(n, t) ==
    LET m == CASE n = 1 -> SearchMonthName(t)
               [] n = 2 -> SearchDmy(t)
               [] n = 3 -> SearchYmd(t)
               [] n = 4 -> SearchDateTime(t)
    IN  IF m.start = 0 THEN Continue
        ELSE IF n = 3 THEN ReceiptDateOf(ToInt(m.g3), ToInt(m.g2), ToInt(m.g1))
        ELSE ReceiptDateOf(ToInt(m.g1), ToInt(m.g2), ToInt(m.g3))

RECURSIVE ReceiptDateFrom(_, _, _)
ReceiptDateFrom(n, t, fallback_date) ==
    IF n > 4 THEN StrfDate(fallback_date)
    ELSE LET r == ReceiptDatePattern(n, t)
         IN  IF r.ret THEN r.val ELSE ReceiptDateFrom(n + 1, t, fallback_date)

extract_receipt_date_smart(txt, fallback_date) == ReceiptDateFrom(1, txt, fallback_date)

-----------------------------------------------------------------------------
\* VisionProcessor._parse_receipt_structure: the lines of the OCR text

\* [line.strip() for line in full_text.split('\n') if line.strip()]
SplitLines(t) ==
    LET cuts == {0, Len(t) + 1} \cup {i \in 1..Len(t) : t[i] = "\n"}
        \* <<first, last>> index of every piece that is not blank
        pieces == {p \in cuts \X cuts :
                     /\ p[1] < p[2]
                     /\ \A c \in cuts : ~(p[1] < c /\ c < p[2])
                     /\ Strip(SubSeq(t, p[1] + 1, p[2] - 1)) # <<>>}
    IN  [n \in 1..Cardinality(pieces) |->
            LET p == CHOOSE x \in pieces : Cardinality({y \in pieces : y[1] < x[1]}) = n - 1
            IN  Strip(SubSeq(t, p[1] + 1, p[2] - 1))]

-----------------------------------------------------------------------------
\* VisionProcessor._extract_merchant_name

\* re.match(pattern, line, re.IGNORECASE) for one of skip_patterns
SkipPattern(l) ==
    LET low == LowerText(l)
        n == Len(l)
    IN  \/ n >= 1 /\ AllDigits(l, 1, n)                                   \* ^\d+$
        \/ n >= 1 /\ \A i \in 1..n :                                      \* ^[\d\s\-/:.,]+$
                        IsDigit(l[i]) \/ IsSpace(l[i]) \/ l[i] \in {"-", "/", ":", ".", ","}
        \/ n >= 10 /\ AllDigits(l, 1, n)                                  \* ^\d{10,}$
        \/ low \in {<<"r", "e", "c", "e", "i", "p", "t">>, <<"s", "t", "r", "u", "k">>, <<"b", "o", "n">>}                      \* ^(receipt|struk|bon)$
        \/ HasAt(low, 1, <<"k", "a", "s", "i", "r">>) \/ HasAt(low, 1, <<"c", "a", "s", "h", "i", "e", "r">>)         \* kasir|cashier
        \/ low \in {<<"t", "o", "t", "a", "l">>, <<"s", "u", "b", "t", "o", "t", "a", "l">>, <<"t", "a", "x">>}                     \* ^(total|subtotal|tax)$
        \/ \E a \in 2..4, b \in 1..2, c \in 1..4 :                        \* ^\d{2,4}[-/]\d{1,2}[-/]\d{1,4}$
              /\ n = a + b + c + 2
              /\ AllDigits(l, 1, a) /\ IsDateSep(l[a + 1])
              /\ AllDigits(l, a + 2, a + b + 1) /\ IsDateSep(l[a + b + 2])
              /\ AllDigits(l, a + b + 3, n)
        \/ \E a \in 1..2 :                                                \* ^\d{1,2}:\d{2}
              /\ n >= a + 3
              /\ AllDigits(l, 1, a) /\ l[a + 1] = ":" /\ AllDigits(l, a + 2, a + 3)
        \/ \E a \in 2..3 :                                                \* ^[A-Z]{2,3}\d+$
              /\ n > a
              /\ \A i \in 1..a : IsAlpha(l[i])
              /\ AllDigits(l, a + 1, n)

\* re.search(r'[a-zA-Z]{3,}', line)
HasThreeLetters(l) ==
    \E i \in 1..(Len(l) - 2) : IsAlpha(l[i]) /\ IsAlpha(l[i + 1]) /\ IsAlpha(l[i + 2])

\* str.title(): a letter is upper-cased after a character that is not a
\* letter, and lower-cased after a letter
Title(l) ==
    [i \in 1..Len(l) |->
        IF i = 1 \/ ~IsAlpha(l[i - 1]) THEN UpperChar(l[i]) ELSE LowerChar(l[i])]

\* the lines of the header area that pass every test of the loop body
MerchantCandidates(lines) ==
    {i \in 1..(IF Len(lines) < 5 THEN Len(lines) ELSE 5) :
        /\ ~SkipPattern(lines[i])
        /\ Len(lines[i]) >= 3
        /\ Len(lines[i]) >= 4
        /\ HasThreeLetters(lines[i])}

\* the header area read to the end of the list instead of lines[:5]
extract_merchant_name_AllLines(lines) ==
    LET found == {i \in 1..Len(lines) :
                    /\ ~SkipPattern(lines[i])
                    /\ Len(lines[i]) >= 4
                    /\ HasThreeLetters(lines[i])}
    IN  IF found = {} THEN <<"U", "n", "k", "n", "o", "w", "n">> ELSE Title(lines[MinOf(found)])

extract_merchant_name(lines) ==
    LET found == MerchantCandidates(lines)
    IN  IF found = {} THEN <<"U", "n", "k", "n", "o", "w", "n">> ELSE Title(lines[MinOf(found)])

-----------------------------------------------------------------------------
\* VisionProcessor._extract_total_amount

\* the last indices e at which \d{1,3}(?:[.,]\d{3})* can end when it starts
\* at index i of t
RECURSIVE GroupsFrom(_, _)
GroupsFrom(t, e) ==
    IF e + 4 <= Len(t) /\ t[e + 1] \in {".", ","} /\ AllDigits(t, e + 2, e + 4)
    THEN {e} \cup GroupsFrom(t, e + 4)
    ELSE {e}
NumberEnds(t, i) ==
    LET heads == {a \in 1..3 : i + a - 1 <= Len(t) /\ AllDigits(t, i, i + a - 1)}
    IN  UNION {GroupsFrom(t, i + a - 1) : a \in heads}

\* _parse_indonesian_number of t[i..e]
NumberValue(t, i, e) == ToInt(RemoveSeparators(SubSeq(t, i, e)))

\* the first digit of t from index p on (0 if none)
FirstDigitFrom(t, p) ==
    LET at == {i \in p..Len(t) : IsDigit(t[i])}
    IN  IF at = {} THEN 0 ELSE MinOf(at)

\* re.search(r'(\d{1,3}(?:[.,]\d{3})*(?:[.,]\d{2})?)', line): the value of
\* group 1, or -1 when the line has no digit
SearchTotalNumber(l) ==
    LET i == FirstDigitFrom(l, 1)
        e == MaxOf(NumberEnds(l, i))
        c == IF e + 3 <= Len(l) /\ l[e + 1] \in {".", ","} /\ AllDigits(l, e + 2, e + 3)
             THEN e + 3 ELSE e
    IN  IF i = 0 THEN -1 ELSE NumberValue(l, i, c)

\* re.findall(r'(\d{1,3}(?:[.,]\d{3})*)', line) from index p on: the values
RECURSIVE FindNumbers(_, _)
FindNumbers(l, p) ==
    LET i == FirstDigitFrom(l, p)
        e == MaxOf(NumberEnds(l, i))
    IN  IF i = 0 THEN {} ELSE {NumberValue(l, i, e)} \cup FindNumbers(l, e + 1)

\* re.findall(r'rp\.?\s*(\d{1,3}(?:[.,]\d{3})*)', t) from index p on
RECURSIVE FindRpBefore(_, _)
FindRpBefore(t, p) ==
    LET NumberAfter(k) == SkipSpaces(t, IF k + 2 <= Len(t) /\ t[k + 2] = "." THEN k + 3 ELSE k + 2)
        at == {k \in p..Len(t) :
                  /\ HasAt(t, k, <<"r", "p">>)
                  /\ NumberAfter(k) <= Len(t)
                  /\ IsDigit(t[NumberAfter(k)])}
        i == NumberAfter(MinOf(at))
        e == MaxOf(NumberEnds(t, i))
    IN  IF at = {} THEN {} ELSE {NumberValue(t, i, e)} \cup FindRpBefore(t, e + 1)

\* re.findall(r'(\d{1,3}(?:[.,]\d{3})*)\s*rp', t) from index p on
RECURSIVE FindRpAfter(_, _)
FindRpAfter(t, p) ==
    LET EndsAt(i) == {e \in NumberEnds(t, i) : HasAt(t, SkipSpaces(t, e + 1), <<"r", "p">>)}
        at == {i \in p..Len(t) : IsDigit(t[i]) /\ EndsAt(i) # {}}
        i == MinOf(at)
        e == MaxOf(EndsAt(i))
    IN  IF at = {} THEN {}
        ELSE {NumberValue(t, i, e)} \cup FindRpAfter(t, SkipSpaces(t, e + 1) + 2)

total_indicators ==
    {<<"t", "o", "t", "a", "l">>, <<"g", "r", "a", "n", "d", " ", "t", "o", "t", "a", "l">>, <<"s", "u", "b", "t", "o", "t", "a", "l">>, <<"j", "u", "m", "l", "a", "h">>, <<"a", "m", "o", "u", "n", "t", " ", "d", "u", "e">>}
contact_words == {<<"p", "h", "o", "n", "e">>, <<"h", "p">>, <<"t", "e", "l">>, <<"w", "a">>, <<"w", "h", "a", "t", "s", "a", "p", "p">>, <<"c", "o", "n", "t", "a", "c", "t">>}
reference_words == {<<"r", "e", "f">>, <<"i", "n", "v", "o", "i", "c", "e">>, <<"r", "e", "c", "e", "i", "p", "t">>, <<"c", "a", "s", "h", "i", "e", "r">>, <<"k", "a", "s", "i", "r">>}

\* re.search(r'\b\d{10,}\b', line)
HasPhoneRun(l) ==
    \E i \in 1..Len(l), j \in 1..Len(l) :
        /\ j - i + 1 >= 10
        /\ AllDigits(l, i, j)
        /\ BoundaryBefore(l, i)
        /\ BoundaryBefore(l, j + 1)

\* an entry of the list amounts
Amount(source, amt, line) == [source |-> source, amt |-> amt, line |-> line]

\* Strategy 1: the first number of every line that holds a total indicator
TotalLineAmounts(lines) ==
    {Amount("total_line", SearchTotalNumber(lines[i]), lines[i]) :
        i \in {k \in 1..Len(lines) :
                  /\ AnyIn(LowerText(lines[k]), total_indicators)
                  /\ SearchTotalNumber(lines[k]) >= 100}}

\* "Skip if line has obvious non-total indicators"
SkipBottomLine(l) ==
    AnyIn(LowerText(l), contact_words) \/ AnyIn(LowerText(l), reference_words)

\* Strategy 2: the numbers of the last five lines
BottomLineAmounts(lines) ==
    UNION {{Amount("bottom_line", v, lines[i]) : v \in {x \in FindNumbers(lines[i], 1) : x >= 100}} :
              i \in {k \in 1..Len(lines) : k > Len(lines) - 5 /\ ~SkipBottomLine(lines[k])}}

\* Strategy 3: the numbers next to 'rp' in full_text.lower()
RpAmounts(full_text) ==
    LET t == LowerText(full_text)
    IN  {Amount("rp_pattern", v, <<>>) : v \in {x \in FindRpBefore(t, 1) \cup FindRpAfter(t, 1) : x >= 100}}

\* the selection without priorities: the largest amount found
SelectAmount_Largest(amounts) ==
    IF amounts = {} THEN 0 ELSE MaxOf({a.amt : a \in amounts})

\* "SMART SELECTION": total lines, then bottom lines without a phone
\* number, then rp patterns, then the largest amount of 100..10000000
SelectAmount(amounts) ==
    LET Of(source) == {a.amt : a \in {x \in amounts : x.source = source}}
        bottom_amounts == {a.amt : a \in {x \in amounts :
                              x.source = "bottom_line" /\ ~HasPhoneRun(x.line)}}
        all_amounts == {a.amt : a \in {x \in amounts : 100 <= x.amt /\ x.amt <= 10000000}}
    IN  IF amounts = {} THEN 0
        ELSE IF Of("total_line") # {} THEN MaxOf(Of("total_line"))
        ELSE IF bottom_amounts # {} THEN MaxOf(bottom_amounts)
        ELSE IF Of("rp_pattern") # {} THEN MaxOf(Of("rp_pattern"))
        ELSE IF all_amounts # {} THEN MaxOf(all_amounts)
        ELSE 0

extract_total_amount(lines, full_text) ==
    SelectAmount(TotalLineAmounts(lines) \cup BottomLineAmounts(lines) \cup RpAmounts(full_text))

-----------------------------------------------------------------------------
\* VisionProcessor._parse_receipt_structure

\* the keyword lists of _categorize_receipt_enhanced, in the order tested;
\* the last is looked up in the full text, the others in the location
receipt_category_keywords ==
    << [category |-> "Food",
        keywords |-> {<<"b", "r", "e", "a", "d", "t", "a", "l", "k">>, <<"b", "r", "e", "a", "d", " ", "t", "a", "l", "k">>, <<"b", "a", "k", "e", "r", "y">>, <<"c", "a", "k", "e">>, <<"p", "a", "s", "t", "r", "y">>,
                      <<"r", "e", "s", "t", "a", "u", "r", "a", "n", "t">>, <<"r", "e", "s", "t", "o">>, <<"c", "a", "f", "e">>, <<"f", "o", "o", "d">>, <<"m", "a", "k", "a", "n">>, <<"w", "a", "r", "u", "n", "g">>,
                      <<"r", "u", "m", "a", "h", " ", "m", "a", "k", "a", "n">>, <<"k", "f", "c">>, <<"m", "c", "d">>, <<"p", "i", "z", "z", "a">>, <<"b", "a", "k", "s", "o">>, <<"n", "a", "s", "i">>}],
       [category |-> "Shopping",
        keywords |-> {<<"m", "a", "r", "k", "e", "t">>, <<"m", "a", "r", "t">>, <<"g", "r", "o", "c", "e", "r", "y">>, <<"s", "u", "p", "e", "r", "m", "a", "r", "k", "e", "t">>, <<"i", "n", "d", "o", "m", "a", "r", "e", "t">>,
                      <<"a", "l", "f", "a", "m", "a", "r", "t">>, <<"s", "h", "o", "p">>, <<"s", "t", "o", "r", "e">>, <<"m", "a", "l", "l">>, <<"p", "l", "a", "z", "a">>}],
       [category |-> "Transport",
        keywords |-> {<<"g", "a", "s">>, <<"p", "e", "t", "r", "o", "l">>, <<"s", "h", "e", "l", "l">>, <<"p", "e", "r", "t", "a", "m", "i", "n", "a">>, <<"b", "e", "n", "s", "i", "n">>, <<"s", "p", "b", "u">>}],
       [category |-> "Health",
        keywords |-> {<<"p", "h", "a", "r", "m", "a", "c", "y">>, <<"a", "p", "o", "t", "e", "k">>, <<"m", "e", "d", "i", "c", "i", "n", "e">>, <<"o", "b", "a", "t">>, <<"d", "o", "k", "t", "e", "r">>, <<"c", "l", "i", "n", "i", "c">>}] >>

categorize_receipt_enhanced(location, full_text) ==
    LET found == {n \in 1..4 :
                    AnyIn(IF n = 4 THEN LowerText(full_text) ELSE LowerText(location),
                          receipt_category_keywords[n].keywords)}
    IN  IF found = {} THEN "Other" ELSE receipt_category_keywords[MinOf(found)].category

parse_receipt_structure(full_text, message_date, user) ==
    LET lines        == SplitLines(full_text)
        merchant     == extract_merchant_name(lines)
        total_amount == extract_total_amount(lines, full_text)
        description  == IF merchant # <<"U", "n", "k", "n", "o", "w", "n">>
                        THEN <<"P", "u", "r", "c", "h", "a", "s", "e", " ", "a", "t", " ">> \o merchant
                        ELSE <<"R", "e", "c", "e", "i", "p", "t", " ", "p", "u", "r", "c", "h", "a", "s", "e">>
    IN  [description |-> Capitalize(description),
         amount |-> IF total_amount > 0 THEN total_amount ELSE 0,
         location |-> Capitalize(merchant),
         category |-> categorize_receipt_enhanced(merchant, full_text),
         transaction_date |-> extract_receipt_date_smart(full_text, message_date),
         input_by |-> user,
         source |-> "Vision API"]

-----------------------------------------------------------------------------
\* The receipt extractors on their own: the OCR text arrives line by line

\* Largest number of lines added to the start of a receipt.
MaxReceiptLines == 3
\* Largest number of lines of a receipt parsed as a whole.
MaxRecordLines == 2
\* Largest number of tokens a total line is composed of.
MaxTotalTokens == 3
\* Largest number of words in a text given to the location extractor.
MaxLocationWords == 3
\* Largest number of words added to the start of a text given to the fallback parsers.
MaxFallbackWords == 2

\* how a receipt starts: empty, or four lines that are no merchant name
ReceiptHeads ==
    { <<>>,
      <<"s", "t", "r", "u", "k">> \o <<"\n">> \o <<"1", "2">> \o <<"\n">> \o <<"A", "B">> \o <<"\n">> \o <<"1", "0", ":", "3", "2">> }

ReceiptLines ==
    { <<"1", "8", "/", "0", "3", "/", "2", "0", "2", "2", " ", "1", "0", ":", "3", "2">>, <<"B", "R", "E", "A", "D", "T", "A", "L", "K", " ", "P", "O", "N", "D", "O", "K", " ", "I", "N", "D", "A", "H">>, <<"A", "L", "F", "A", "M", "A", "R", "T">>, <<"T", "o", "t", "a", "l", ":", " ", "2", "5", ".", "2", "0", "0">>,
      <<"T", "e", "l", ":", " ", "0", "8", "1", "2", "3", "4", "5", "6", "7", "8", "9", "0">>, <<"0", "8", "1", "2", "3", "4", "5", "6", "7", "8", "9", "0">>, <<"2", "0", "2", "2", "-", "0", "3", "-", "1", "8">>, <<"1", "8", " ", "M", "a", "r", "e", "t", " ", "2", "0", "2", "2">>,
      <<"1", "8", "-", "0", "3", "-", "2", "2">>, <<"I", "N", "V", "0", "0", "1">>, <<"K", "F", "C">>, <<"R", "p", " ", "1", "5", ".", "0", "0", "0">>,
      <<"T", "u", "n", "a", "i", " ", "5", "0", ".", "0", "0", "0">> }

\* the text recognition returns one more line
TypeLine ==
    /\ pc = "typing"
    /\ ntok < MaxReceiptLines
    /\ \E l \in ReceiptLines : text' = (IF text = <<>> THEN l ELSE text \o <<"\n">> \o l)
    /\ ntok' = ntok + 1
    /\ UNCHANGED <<pc, out, ref, loc, available_categories, handlerVars>>

ExtractMerchantName ==
    /\ pc = "typing"
    /\ out' = [op |-> "_extract_merchant_name", val |-> extract_merchant_name(SplitLines(text))]
    /\ pc' = "done"
    /\ UNCHANGED <<text, ntok, ref, loc, available_categories, handlerVars>>

ExtractTotalAmount ==
    /\ pc = "typing"
    /\ out' = [op |-> "_extract_total_amount",
               val |-> extract_total_amount(SplitLines(text), text)]
    /\ pc' = "done"
    /\ UNCHANGED <<text, ntok, ref, loc, available_categories, handlerVars>>

ExtractReceiptDateSmart ==
    /\ pc = "typing"
    /\ out' = [op |-> "_extract_receipt_date_smart",
               val |-> extract_receipt_date_smart(text, ref)]
    /\ pc' = "done"
    /\ UNCHANGED <<text, ntok, ref, loc, available_categories, handlerVars>>

InitReceipt ==
    /\ text \in ReceiptHeads
    /\ ntok = 0
    /\ pc = "typing"
    /\ out = NoResult
    /\ ref = <<2025, 8, 10>>
    /\ loc = <<>>
    /\ available_categories = <<>>
    /\ NoHandler

NextReceipt ==
    TypeLine \/ ExtractMerchantName \/ ExtractTotalAmount \/ ExtractReceiptDateSmart

SpecReceipt == InitReceipt /\ [][NextReceipt]_vars

-----------------------------------------------------------------------------
\* The receipt record: the recognised text is parsed as a whole

TypeRecordLine ==
    /\ pc = "typing"
    /\ ntok < MaxRecordLines
    /\ \E l \in ReceiptLines : text' = (IF text = <<>> THEN l ELSE text \o <<"\n">> \o l)
    /\ ntok' = ntok + 1
    /\ UNCHANGED <<pc, out, ref, loc, available_categories, handlerVars>>

\* extract_receipt_data on a recognised text that is not blank
ParseReceiptStructure ==
    /\ pc = "typing"
    /\ SplitLines(text) # <<>>
    /\ \E user \in UserNames :
          out' = [op |-> "_parse_receipt_structure",
                  val |-> parse_receipt_structure(text, ref, user)]
    /\ pc' = "done"
    /\ UNCHANGED <<text, ntok, ref, loc, available_categories, handlerVars>>

InitRecord ==
    /\ text = <<>>
    /\ ntok = 0
    /\ pc = "typing"
    /\ out = NoResult
    /\ ref = <<2025, 8, 10>>
    /\ loc = <<>>
    /\ available_categories = <<>>
    /\ NoHandler

NextRecord == TypeRecordLine \/ ParseReceiptStructure

SpecRecord == InitRecord /\ [][NextRecord]_vars

-----------------------------------------------------------------------------
\* The amount extractor on one total line, typed token by token

TotalLineTokens ==
    { <<"T", "o", "t", "a", "l", ":", " ">>, <<"T", "o", "t", "a", "l", " ">>, <<"T", "O", "T", "A", "L", " ">>, <<"2", "5">>, <<"1">>, <<".", "0", "0", "0">>, <<",", "0", "0", "0">>, <<"0", "0", "0">>, <<",", "5", "0">> }

TypeTotalToken ==
    /\ pc = "typing"
    /\ ntok < MaxTotalTokens
    /\ \E tok \in TotalLineTokens : text' = text \o tok
    /\ ntok' = ntok + 1
    /\ UNCHANGED <<pc, out, ref, loc, available_categories, handlerVars>>

NextTotalLine == TypeTotalToken \/ ExtractTotalAmount

SpecTotalLine == InitRecord /\ [][NextTotalLine]_vars

-----------------------------------------------------------------------------
\* TextUtils.extract_location_from_text

\* the first digit from p on (Len(t) + 1 if none)
RECURSIVE FirstDigitOrEnd(_, _)
FirstDigitOrEnd(t, p) ==
    IF p > Len(t) \/ IsDigit(t[p]) THEN p ELSE FirstDigitOrEnd(t, p + 1)

\* (?:\s+\d|$) at q: white space and then a digit, or the end of the string
\* ($ also matches before a final newline)
PhraseEndsAt(t, q) ==
    \/ q = Len(t) + 1
    \/ q = Len(t) /\ t[q] = "\n"
    \/ /\ q <= Len(t) /\ IsSpace(t[q])
       /\ SkipSpaces(t, q) <= Len(t) /\ IsDigit(t[SkipSpaces(t, q)])

\* re.search(word \s+ ([^0-9]+?) (?:\s+\d|$)): the leftmost start, the most
\* white space after the word, the shortest capture
SearchPreposition(t, word) ==
    LET n      == Len(word)
        spaces(s) == SkipSpaces(t, s + n) - (s + n)
        ends(p)   == {q \in (p + 1)..FirstDigitOrEnd(t, p) : PhraseEndsAt(t, q)}
        widths(s) == {k \in 1..spaces(s) : ends(s + n + k) # {}}
        starts == {s \in 1..(Len(t) - n + 1) : HasAt(t, s, word) /\ widths(s) # {}}
    IN  IF starts = {} THEN NoMatch
        ELSE LET s == MinOf(starts)
                 p == s + n + MaxOf(widths(s))
             IN  [start |-> s, g1 |-> SubSeq(t, p, MinOf(ends(p)) - 1), g1set |-> TRUE]

\* re.search(@ \s* ([^0-9\s]+))
SearchAtSign(t) ==
    LET p(s)   == SkipSpaces(t, s + 1)
        starts == {s \in 1..Len(t) : /\ t[s] = "@"
                                     /\ p(s) <= Len(t)
                                     /\ ~IsDigit(t[p(s)])}
    IN  IF starts = {} THEN NoMatch
        ELSE LET s == MinOf(starts)
                 e == MaxOf({j \in p(s)..Len(t) :
                               \A i \in p(s)..j : ~IsDigit(t[i]) /\ ~IsSpace(t[i])})
             IN  [start |-> s, g1 |-> SubSeq(t, p(s), e), g1set |-> TRUE]

location_patterns(t) ==
    << SearchPreposition(t, <<"d", "i">>), SearchPreposition(t, <<"k", "e">>),
       SearchPreposition(t, <<"d", "a", "r", "i">>), SearchAtSign(t) >>

\* TextUtils.capitalize_properly
capitalize_properly(t) == IF t = <<>> THEN <<>> ELSE Title(Strip(t))

extract_location_from_text(t) ==
    LET ms    == location_patterns(LowerText(t))
        found == {i \in 1..Len(ms) : ms[i].start # 0}
    IN  IF found = {} THEN <<"U", "n", "k", "n", "o", "w", "n">>
        ELSE capitalize_properly(Strip(ms[MinOf(found)].g1))

-----------------------------------------------------------------------------
\* The free-text location extractor on its own

LocationWords ==
    { <<"m", "a", "k", "a", "n">>, <<"d", "i">>, <<"k", "e">>, <<"d", "a", "r", "i">>, <<"s", "h", "e", "l", "l">>, <<"T", "o", "k", "o">>, <<"@", "w", "a", "r", "u", "n", "g">>,
      <<"m", "o", "t", "o", "r">>, <<"5", "0", "r", "b">>, <<"k", "2", "4">>, <<"p", "a", "d", "i">> }

TypeLocationWord ==
    /\ TypeWord(LocationWords, MaxLocationWords)
    /\ UNCHANGED <<pc, out, ref, loc, available_categories, handlerVars>>

ExtractLocationFromText ==
    /\ pc = "typing"
    /\ out' = [op |-> "extract_location_from_text", val |-> extract_location_from_text(text)]
    /\ pc' = "done"
    /\ UNCHANGED <<text, ntok, ref, loc, available_categories, handlerVars>>

InitLocation ==
    /\ text = <<>>
    /\ ntok = 0
    /\ pc = "typing"
    /\ out = NoResult
    /\ Idle
    /\ NoHandler

NextLocation == TypeLocationWord \/ ExtractLocationFromText

SpecLocation == InitLocation /\ [][NextLocation]_vars

-----------------------------------------------------------------------------
\* The two fallback parsers on their own

\* how a text starts
FallbackHeads == { <<>>, <<"b", "e", "n", "s", "i", "n", " ", "m", "o", "t", "o", "r", " ", "5", "0", "r", "b">> }

FallbackWords ==
    { <<"b", "e", "n", "s", "i", "n">>, <<"m", "o", "t", "o", "r">>, <<"5", "0", "r", "b">>, <<"d", "i">>, <<"s", "h", "e", "l", "l">>, <<"m", "a", "k", "a", "n">>,
      <<"2", "5", "0", "0", "0">>, <<"5", "0", "0">> }

TypeFallbackWord ==
    /\ TypeWord(FallbackWords, MaxFallbackWords)
    /\ UNCHANGED <<pc, out, ref, loc, available_categories, handlerVars>>

\* AIProcessor._fallback_parse(text, message_date, user_name)
AIProcessorFallbackParse ==
    /\ pc = "typing"
    /\ text # <<>>
    /\ \E user \in UserNames :
          out' = [op |-> "AIProcessor._fallback_parse",
                  val |-> AIProcessor_fallback_parse(text, ref, user)]
    /\ pc' = "done"
    /\ UNCHANGED <<text, ntok, ref, loc, available_categories, handlerVars>>

\* _fallback_parse(text, message_date, user_name) of main.py
MainFallbackParse ==
    /\ pc = "typing"
    /\ text # <<>>
    /\ \E user \in UserNames :
          out' = [op |-> "main._fallback_parse",
                  val |-> main_fallback_parse(text, ref, user)]
    /\ pc' = "done"
    /\ UNCHANGED <<text, ntok, ref, loc, available_categories, handlerVars>>

InitFallback ==
    /\ text \in FallbackHeads
    /\ ntok = 0
    /\ pc = "typing"
    /\ out = NoResult
    /\ ref = <<2025, 8, 10>>
    /\ loc = <<>>
    /\ available_categories = <<>>
    /\ NoHandler

NextFallback == TypeFallbackWord \/ AIProcessorFallbackParse \/ MainFallbackParse

SpecFallback == InitFallback /\ [][NextFallback]_vars

-----------------------------------------------------------------------------
\* main.initialize_services_background, ServiceState and handle_text_with_check

\* Largest number of messages answered while the start-up thread is observed.
MaxMessages == 4

\* ServiceState.all_ready
all_ready(state) ==
    state.sheets_ready /\ state.ai_ready /\ state.vision_ready /\ state.bot_ready

\* the parameters of AIProcessor.__init__ and of VisionProcessor.__init__
\* besides self
AIProcessorParameters == {}
VisionProcessorParameters == {}

\* binding the keyword arguments of a call to the parameters of the callee:
\* a keyword that names no parameter raises TypeError
CallRaises(parameters, keywords) == ~(keywords \subseteq parameters)

\* one statement of initialize_services_background: where the thread goes
\* next and what service_state is then; sheets is SheetsManager.service as
\* the constructor left it (the constructor swallows its own errors)
initialize_services_background(at, state) ==
    CASE at = "SheetsManager" ->
            [at |-> "AIProcessor", state |-> [state EXCEPT !.sheets_ready = TRUE]]
      [] at = "AIProcessor" ->
            IF CallRaises(AIProcessorParameters, {"sheets_manager"})
            THEN [at |-> "except", state |-> state]
            ELSE [at |-> "VisionProcessor", state |-> [state EXCEPT !.ai_ready = TRUE]]
      [] at = "VisionProcessor" ->
            IF CallRaises(VisionProcessorParameters, {"sheets_manager"})
            THEN [at |-> "except", state |-> state]
            ELSE [at |-> "bot_ready", state |-> [state EXCEPT !.vision_ready = TRUE]]
      [] at = "bot_ready" ->
            [at |-> "done", state |-> [state EXCEPT !.bot_ready = TRUE]]
      [] at = "except" ->
            [at |-> "done", state |-> state]

\* the reply of handle_text_with_check
handle_text_with_check(state) ==
    IF ~all_ready(state)
    THEN [reply |-> "Services still loading", sheets |-> state.sheets_ready,
          ai |-> state.ai_ready, vision |-> state.vision_ready]
    ELSE [reply |-> "handle_text"]

\* the start-up thread runs its next statement
InitializeServicesBackground ==
    /\ pc \in {"SheetsManager", "AIProcessor", "VisionProcessor", "bot_ready", "except"}
    /\ LET step == initialize_services_background(pc, service_state)
       IN  /\ pc' = step.at
           /\ service_state' = step.state
    /\ IF pc = "SheetsManager" THEN service' \in {"ok", "None"} ELSE service' = service
    /\ UNCHANGED <<text, ntok, out, ref, loc, available_categories, ai_processor,
                   m_category, user_name, response, expense_data, catatan, calls,
                   writers, running, waited, sleep_seconds>>

\* a text message arrives and handle_text_with_check answers it
HandleTextWithCheck ==
    /\ calls < MaxMessages
    /\ \E txt \in Messages : text' = txt
    /\ out' = [op |-> "handle_text_with_check", val |-> handle_text_with_check(service_state)]
    /\ calls' = calls + 1
    /\ UNCHANGED <<ntok, pc, ref, loc, available_categories, ai_processor, service,
                   m_category, user_name, response, expense_data, catatan, processVars>>

\* the state when main has started the thread and the bot
InitServices ==
    /\ text = <<>>
    /\ ntok = 0
    /\ pc = "SheetsManager"
    /\ out = NoResult
    /\ Idle
    /\ NoHandler

NextServices == InitializeServicesBackground \/ HandleTextWithCheck

SpecServices == InitServices /\ [][NextServices]_vars

\* the started thread keeps running while the process lives, and a message
\* that arrived is answered
FairSpecServices ==
    SpecServices /\ WF_vars(InitializeServicesBackground) /\ WF_vars(HandleTextWithCheck)

-----------------------------------------------------------------------------
\* SheetsManager.add_expense called by several writers on the one sheet

\* Largest number of add_expense calls in one behaviour.
MaxWrites == 3

\* the callers of add_expense that share the sheet
Writers == {1, 2}

\* _get_next_id from the outcome of the request for the ID column: 1 when
\* the request raised
get_next_id_except(raised, rows) == IF raised THEN 1 ELSE get_next_id(rows)

\* a writer enters add_expense; the service is there
AddExpense(w) ==
    /\ writers[w].pc = "idle"
    /\ calls < MaxWrites
    /\ service = "ok"
    /\ writers' = [writers EXCEPT ![w].pc = "_get_next_id"]
    /\ calls' = calls + 1
    /\ UNCHANGED <<text, ntok, pc, out, ref, loc, available_categories, ai_processor,
                   service, m_category, user_name, response, expense_data, catatan,
                   service_state, running, waited, sleep_seconds>>

\* the request for the ID column returns the column as it is now, or raises
GetNextId(w) ==
    /\ writers[w].pc = "_get_next_id"
    /\ \E raised \in BOOLEAN :
          writers' = [writers EXCEPT ![w] = [pc |-> "append",
                                             next_id |-> get_next_id_except(raised, catatan)]]
    /\ UNCHANGED <<text, ntok, pc, out, ref, loc, available_categories, ai_processor,
                   service, m_category, user_name, response, expense_data, catatan, calls,
                   service_state, running, waited, sleep_seconds>>

\* the append request adds the row below the last one and add_expense
\* returns True, or it raises and add_expense returns False
AppendRow(w) ==
    /\ writers[w].pc = "append"
    /\ \E raised \in BOOLEAN :
          /\ catatan' = IF raised THEN catatan
                        ELSE Append(catatan, [id |-> writers[w].next_id])
          /\ out' = [op |-> "add_expense", val |-> ~raised]
    /\ writers' = [writers EXCEPT ![w].pc = "idle"]
    /\ UNCHANGED <<text, ntok, pc, ref, loc, available_categories, ai_processor,
                   service, m_category, user_name, response, expense_data, calls,
                   service_state, running, waited, sleep_seconds>>

InitSheet ==
    /\ text = <<>>
    /\ ntok = 0
    /\ pc = "idle"
    /\ out = NoResult
    /\ Idle
    /\ ai_processor = [exists |-> FALSE, model |-> FALSE, sheets_manager |-> "unset"]
    /\ service = "ok"
    /\ m_category = <<>>
    /\ user_name = <<>>
    /\ response = [kind |-> "none"]
    /\ expense_data = [error |-> "none"]
    /\ catatan = <<>>
    /\ calls = 0
    /\ service_state = [sheets_ready |-> TRUE, ai_ready |-> FALSE,
                        vision_ready |-> FALSE, bot_ready |-> FALSE]
    /\ writers = [w \in Writers |-> [pc |-> "idle", next_id |-> 0]]
    /\ running = TRUE
    /\ waited = 0
    /\ sleep_seconds = 0

NextSheet == \E w \in Writers : AddExpense(w) \/ GetNextId(w) \/ AppendRow(w)

SpecSheet == InitSheet /\ [][NextSheet]_vars

-----------------------------------------------------------------------------
\* StandaloneKeepAlive.run and its signal handler

\* Number of one-second sleeps of the wait after a ping: range(840), scaled.
WaitIterations == 5

\* The pings sent are counted up to this number.
MaxPings == 4

\* the clock when run looks at it: 06:00-06:14, the other active hours,
\* the hours off
Clock == {"wake_up", "active", "off"}

\* the values get_next_active_time returns in the hours off, in seconds (0
\* when the active hours began between the two looks at the clock)
NextActiveTimes == {0, 45, 130}

\* the awaits of wake_up_sequence in order: pre_warm pings and sleeps two
\* seconds three times, then a sleep of ten seconds and one more ping
wake_up_sequence ==
    << "ping_service", "sleep(2)", "ping_service", "sleep(2)", "ping_service", "sleep(2)",
       "sleep(10)", "ping_service" >>

\* a loop that does not look at running
while_running_Forever(r) == TRUE

\* the test of the loop of run
while_running(r) == r

\* the test of the loop that sleeps in chunks
while_sleeping(seconds, r) == seconds > 0 /\ r

Min(a, b) == IF a < b THEN a ELSE b

\* where run is inside the try block
InTry == pc.at \in {"wake_up_sequence", "ping_service", "wait", "sleep_until_active"}

\* SIGINT or SIGTERM is delivered
SignalHandler ==
    /\ pc.at # "returned"
    /\ running
    /\ running' = FALSE
    /\ out' = [op |-> "signal_handler", at |-> pc.at]
    /\ UNCHANGED <<text, ntok, pc, ref, loc, available_categories, ai_processor, service,
                   m_category, user_name, response, expense_data, catatan, calls,
                   service_state, writers, waited, sleep_seconds>>

\* the loop test of run and, when it passes, the look at the clock
WhileRunning ==
    /\ pc.at = "while"
    /\ IF ~while_running(running)
       THEN /\ pc' = [at |-> "returned", i |-> 0]
            /\ UNCHANGED sleep_seconds
       ELSE \E now \in Clock :
               CASE now = "wake_up" ->
                       /\ pc' = [at |-> "wake_up_sequence", i |-> 1]
                       /\ UNCHANGED sleep_seconds
                 [] now = "active" ->
                       /\ pc' = [at |-> "ping_service", i |-> 0]
                       /\ UNCHANGED sleep_seconds
                 [] now = "off" ->
                       /\ pc' = [at |-> "sleep_until_active", i |-> 0]
                       /\ sleep_seconds' \in NextActiveTimes
    /\ UNCHANGED <<text, ntok, out, ref, loc, available_categories, ai_processor, service,
                   m_category, user_name, response, expense_data, catatan, calls,
                   service_state, writers, running, waited>>

\* one await of wake_up_sequence ends (a ping ends within its time-out)
WakeUpSequence ==
    /\ pc.at = "wake_up_sequence"
    /\ pc' = IF pc.i < Len(wake_up_sequence)
             THEN [at |-> "wake_up_sequence", i |-> pc.i + 1]
             ELSE [at |-> "wait", i |-> 0]
    /\ calls' = IF wake_up_sequence[pc.i] = "ping_service"
                THEN Min(calls + 1, MaxPings) ELSE calls
    /\ waited' = 0
    /\ UNCHANGED <<text, ntok, out, ref, loc, available_categories, ai_processor, service,
                   m_category, user_name, response, expense_data, catatan,
                   service_state, writers, running, sleep_seconds>>

\* the ping of an ordinary cycle ends, with an answer or with an error that
\* ping_service swallows
PingService ==
    /\ pc.at = "ping_service"
    /\ pc' = [at |-> "wait", i |-> 0]
    /\ calls' = Min(calls + 1, MaxPings)
    /\ waited' = 0
    /\ UNCHANGED <<text, ntok, out, ref, loc, available_categories, ai_processor, service,
                   m_category, user_name, response, expense_data, catatan,
                   service_state, writers, running, sleep_seconds>>

\* one iteration of the wait: break when running is False, else sleep(1)
Wait ==
    /\ pc.at = "wait"
    /\ IF waited = WaitIterations \/ ~running
       THEN /\ pc' = [at |-> "while", i |-> 0]
            /\ waited' = 0
       ELSE /\ waited' = waited + 1
            /\ UNCHANGED pc
    /\ UNCHANGED <<text, ntok, out, ref, loc, available_categories, ai_processor, service,
                   m_category, user_name, response, expense_data, catatan, calls,
                   service_state, writers, running, sleep_seconds>>

\* one iteration of the sleep in chunks of at most 60 seconds
SleepUntilActive ==
    /\ pc.at = "sleep_until_active"
    /\ IF while_sleeping(sleep_seconds, running)
       THEN /\ sleep_seconds' = sleep_seconds - Min(60, sleep_seconds)
            /\ UNCHANGED pc
       ELSE /\ pc' = [at |-> "while", i |-> 0]
            /\ sleep_seconds' = 0
    /\ UNCHANGED <<text, ntok, out, ref, loc, available_categories, ai_processor, service,
                   m_category, user_name, response, expense_data, catatan, calls,
                   service_state, writers, running, waited>>

\* an exception leaves the try block
ExceptException60 ==
    /\ InTry
    /\ pc' = [at |-> "sleep(60)", i |-> 0]
    /\ waited' = 0
    /\ sleep_seconds' = 0
    /\ UNCHANGED <<text, ntok, out, ref, loc, available_categories, ai_processor, service,
                   m_category, user_name, response, expense_data, catatan, calls,
                   service_state, writers, running>>

\* the back-off of one minute ends
BackOff ==
    /\ pc.at = "sleep(60)"
    /\ pc' = [at |-> "while", i |-> 0]
    /\ UNCHANGED <<text, ntok, out, ref, loc, available_categories, ai_processor, service,
                   m_category, user_name, response, expense_data, catatan, calls,
                   service_state, writers, running, waited, sleep_seconds>>

InitKeepAlive ==
    /\ text = <<>>
    /\ ntok = 0
    /\ pc = [at |-> "while", i |-> 0]
    /\ out = NoResult
    /\ Idle
    /\ NoHandler

\* the steps of the coroutine
Run == WhileRunning \/ WakeUpSequence \/ PingService \/ Wait \/ SleepUntilActive \/ BackOff

NextKeepAlive ==
    \/ SignalHandler
    \/ WhileRunning
    \/ WakeUpSequence
    \/ PingService
    \/ Wait
    \/ SleepUntilActive
    \/ ExceptException60
    \/ BackOff

SpecKeepAlive == InitKeepAlive /\ [][NextKeepAlive]_vars

\* every sleep and every ping ends, and the event loop then resumes run
FairSpecKeepAlive == SpecKeepAlive /\ WF_vars(Run)

----------------------------------------------------------------------------
\* Properties of the Amount Normalizer (SpecAmount)

\* what the properties read: the message, lower-cased
Msg == LowerText(text)

\* the maximal digit runs of t, by first index
RunStarts(t) == {i \in 1..Len(t) : IsDigit(t[i]) /\ (i = 1 \/ ~IsDigit(t[i - 1]))}
RunEnd(t, i) == MaxOf({j \in i..Len(t) : \A n \in i..j : IsDigit(t[n])})
RunValue(t, i) == ToInt(SubSeq(t, i, RunEnd(t, i)))

\* the index of the first non-space character after index e (Len(t) + 1 if none)
AfterSpaces(t, e) ==
    MinOf({k \in (e + 1)..(Len(t) + 1) : k = Len(t) + 1 \/ ~IsSpace(t[k])})

\* the digit run starting at i is followed, optionally after spaces, by word w
RunThenWord(t, i, w) == HasAt(t, AfterSpaces(t, RunEnd(t, i)), w)

RibuRuns(t) == {i \in RunStarts(t) : RunThenWord(t, i, L_ribu) \/ RunThenWord(t, i, L_rb)}
AmountParsed == pc = "done" /\ out.op = "parse_indonesian_amount"

\* C6: a message with a digit run N followed, optionally after spaces, by
\* 'ribu' or 'rb' parses to N*1000 for the first such N, whatever else the
\* message holds.
C6_RibuTimesThousand ==
    (AmountParsed /\ RibuRuns(Msg) # {}) =>
        out.val = RunValue(Msg, MinOf(RibuRuns(Msg))) * 1000

\* C6 witness: a parsed message with another number before its 'rb' amount
C6_Witness ==
    /\ AmountParsed
    /\ RibuRuns(Msg) # {}
    /\ \E i \in RunStarts(Msg) : i < MinOf(RibuRuns(Msg))
    /\ out.val = 25000

\* digit runs followed by 'k' at a word boundary: the 'k' is followed by
\* white space, by ',' or '.', or by the end of the message
KRuns(t) ==
    {i \in RunStarts(t) :
        LET k == RunEnd(t, i) + 1
        IN  /\ HasAt(t, k, L_k)
            /\ (k = Len(t) \/ IsSpace(t[k + 1]) \/ t[k + 1] \in {",", "."})}

\* C7: a message with a digit run N followed by 'k' at a word boundary and
\* no 'ribu'/'rb' amount parses to N*1000.
C7_KTimesThousand ==
    (AmountParsed /\ RibuRuns(Msg) = {} /\ KRuns(Msg) # {}) =>
        \E i \in KRuns(Msg) : out.val = RunValue(Msg, i) * 1000

\* digit runs followed by any 'k'
AnyKRuns(t) == {i \in RunStarts(t) : RunThenWord(t, i, L_k)}
JutaRuns(t) == {i \in RunStarts(t) : RunThenWord(t, i, L_jt) \/ RunThenWord(t, i, L_juta)}

\* C8: a message whose amount is a digit run N followed by 'jt' or 'juta',
\* with no 'ribu'/'rb'/'k' amount, parses to N*1,000,000.
C8_JutaTimesMillion ==
    (AmountParsed /\ RibuRuns(Msg) = {} /\ AnyKRuns(Msg) = {} /\ JutaRuns(Msg) # {}) =>
        \E i \in JutaRuns(Msg) : out.val = RunValue(Msg, i) * 1000000

\* t[a..b] is a number written in groups: one to three digits, then one or
\* more groups of a separator and exactly three digits
IsGrouped(t, a, b) ==
    \E n \in 1..3 :
        /\ a + n - 1 < b
        /\ (b - (a + n - 1)) % 4 = 0
        /\ \A i \in a..b :
              IF i < a + n THEN IsDigit(t[i])
              ELSE IF (i - (a + n)) % 4 = 0 THEN t[i] \in {".", ","}
              ELSE IsDigit(t[i])

\* the whole message is one grouped number
WholeGrouped(t) == Len(t) > 0 /\ IsGrouped(t, 1, Len(t))
NoDigit(t) == \A i \in 1..Len(t) : ~IsDigit(t[i])

\* C9: a number written with '.' or ',' thousands separators and no
\* multiplier word parses to the integer left when the separators are
\* removed from the whole number; a message without a digit parses to 0.
C9_GroupedNumber ==
    /\ (AmountParsed /\ WholeGrouped(Msg)) => out.val = ToInt(RemoveSeparators(Msg))
    /\ (AmountParsed /\ NoDigit(Msg)) => out.val = 0

-----------------------------------------------------------------------------
\* Properties of the Date Resolver (SpecDate)

DateResolved ==
    pc = "done" /\ out.op \in {"_determine_transaction_date", "parse_indonesian_date"}

DayBeforeYesterdayClass == {<<"k", "e", "m", "a", "r", "i", "n", " ", "d", "u", "l", "u">>, <<"l", "u", "s", "a", " ", "k", "e", "m", "a", "r", "i", "n">>, <<"k", "e", "m", "a", "r", "i", "n", " ", "l", "u", "s", "a">>}
YesterdayClass == {<<"k", "e", "m", "a", "r", "i", "n">>, <<"k", "m", "r", "n">>, <<"y", "e", "s", "t", "e", "r", "d", "a", "y">>}
TomorrowClass == {<<"b", "e", "s", "o", "k">>, <<"t", "o", "m", "o", "r", "r", "o", "w">>}
TodayClass == {<<"h", "a", "r", "i", " ", "i", "n", "i">>, <<"t", "o", "d", "a", "y">>, <<"t", "a", "d", "i">>, <<"b", "a", "r", "u", "s", "a", "n">>}

\* the message holds a keyword of class K and of no other relative class
Alone(K) ==
    /\ AnyIn(Msg, K)
    /\ \A other \in {DayBeforeYesterdayClass, YesterdayClass, TomorrowClass, TodayClass} \ {K} :
           ~AnyIn(Msg, other)

\* C10: a day-before-yesterday keyword resolves to the reference date minus
\* two days, in both resolvers; a yesterday keyword alone to minus one day
\* and a tomorrow keyword alone to plus one day.
C10_RelativeKeywords ==
    DateResolved =>
        /\ AnyIn(Msg, DayBeforeYesterdayClass) => out.val = StrfDate(AddDays(ref, -2))
        /\ Alone(YesterdayClass) => out.val = StrfDate(AddDays(ref, -1))
        /\ Alone(TomorrowClass) => out.val = StrfDate(AddDays(ref, 1))

\* every keyword and weekday name the date resolver knows
DateKeywords ==
    DP_yesterday \cup DP_day_before_yesterday \cup DP_tomorrow \cup time_context_same_day
        \cup UNION {DP_weekdays[d] : d \in 1..7} \cup TodayClass

\* the weekdays (1 = Monday ... 7 = Sunday) one of whose names is in the message
NamedWeekdays == {d \in 1..7 : AnyIn(Msg, DP_weekdays[d])}
RelativeWords == DayBeforeYesterdayClass \cup YesterdayClass \cup TomorrowClass \cup TodayClass

\* C11: for a text with a weekday name and no relative keyword, both
\* resolvers return a date that falls on a named weekday and lies between
\* the reference minus six days and the reference; with one weekday named it
\* is the reference exactly when the reference falls on that weekday.
C11_WeekdayName ==
    (DateResolved /\ NamedWeekdays # {} /\ ~AnyIn(Msg, RelativeWords)) =>
        \E k \in 0..6 :
            LET day == AddDays(ref, -k)
            IN  /\ out.val = StrfDate(day)
                /\ (Weekday(day) + 1) \in NamedWeekdays
                /\ Cardinality(NamedWeekdays) = 1 =>
                       (out.val = StrfDate(ref) <=> (Weekday(ref) + 1) \in NamedWeekdays)

\* C11 witness: 'minggu' on a Sunday gives the reference, and 'senin' on a
\* Wednesday gives the Monday before
C11_Witness ==
    /\ DateResolved
    /\ \/ Msg = <<"m", "i", "n", "g", "g", "u">> /\ ref = <<2025, 8, 10>>
             /\ out.val = <<"2", "0", "2", "5", "-", "0", "8", "-", "1", "0">>
       \/ Msg = <<"s", "e", "n", "i", "n">> /\ ref = <<2025, 1, 1>>
             /\ out.val = <<"2", "0", "2", "4", "-", "1", "2", "-", "3", "0">>

\* a string of the form YYYY-MM-DD that names an existing calendar date
IsIsoDate(s) ==
    /\ Len(s) = 10
    /\ s[5] = "-" /\ s[8] = "-"
    /\ \A i \in {1, 2, 3, 4, 6, 7, 9, 10} : IsDigit(s[i])
    /\ IsDate(ToInt(SubSeq(s, 1, 4)), ToInt(SubSeq(s, 6, 7)), ToInt(SubSeq(s, 9, 10)))
IsoDate(s) == <<ToInt(SubSeq(s, 1, 4)), ToInt(SubSeq(s, 6, 7)), ToInt(SubSeq(s, 9, 10))>>

\* decimal digits of n < 100 without padding
Dec(n) == IF n < 10 THEN <<Digits[n + 1]>> ELSE Pad2(n)
\* the part of the message from its first digit to its last
DigitSpan ==
    LET at == {i \in 1..Len(Msg) : IsDigit(Msg[i])}
    IN  IF at = {} THEN <<>> ELSE SubSeq(Msg, MinOf(at), MaxOf(at))
\* the message holds 'd/m' and no other date expression
OnlyDayMonth(span, d, m) ==
    /\ span = Dec(d) \o <<"/">> \o Dec(m)
    /\ ~AnyIn(Msg, DateKeywords)

\* C12: for a text whose only date expression is DD/MM,
\* _determine_transaction_date returns an existing date not after the
\* reference: that day and month in the reference's year when it is not
\* after the reference, else that day and month one year earlier when it
\* exists there.
C12_DayMonth ==
    (pc = "done" /\ out.op = "_determine_transaction_date") =>
        LET span == DigitSpan
            y == ref[1]
        IN  \A d \in 1..31, m \in 1..12 :
                OnlyDayMonth(span, d, m) =>
                    /\ IsIsoDate(out.val)
                    /\ ~DateAfter(IsoDate(out.val), ref)
                    /\ (IsDate(y, m, d) /\ ~DateAfter(<<y, m, d>>, ref)) =>
                           out.val = FormatYMD(y, m, d)
                    /\ (IsDate(y, m, d) /\ DateAfter(<<y, m, d>>, ref) /\ IsDate(y - 1, m, d)) =>
                           out.val = FormatYMD(y - 1, m, d)

\* C12 witness: '15/8' on 2025-08-10 is taken one year back
C12_Witness ==
    /\ pc = "done" /\ out.op = "_determine_transaction_date"
    /\ Msg = <<"b", "e", "l", "i", " ", "1", "5", "/", "8">>
    /\ ref = <<2025, 8, 10>>
    /\ out.val = <<"2", "0", "2", "4", "-", "0", "8", "-", "1", "5">>

\* C13: every date the Date Resolver returns is a string of the form
\* YYYY-MM-DD that names an existing calendar date.
C13_IsoCalendarDate == DateResolved => IsIsoDate(out.val)

-----------------------------------------------------------------------------
\* Properties of the Category Classifier (SpecCategory)

CategoryMatched == pc = "done" /\ out.op = "match_category_by_keywords"

\* lower-cased 'text location'
TextAndLocation == LowerText(text) \o <<" ">> \o LowerText(loc)
\* the keyword-table labels that are in the supplied list, by table position
SuppliedLabels ==
    {n \in 1..Len(category_keywords) :
        \E i \in 1..Len(available_categories) :
            available_categories[i] = category_keywords[n].category}
HitsIn(t, n) ==
    Cardinality({kw \in category_keywords[n].keywords : Contains(t, kw)})
\* the supplied labels with the highest count, when that count is not zero
TopLabelsIn(t, labels) ==
    LET h == [n \in labels |-> HitsIn(t, n)]
    IN  {n \in labels : h[n] > 0 /\ \A m \in labels : h[m] <= h[n]}
TopLabels == TopLabelsIn(TextAndLocation, SuppliedLabels)

\* C4: the classifier returns the supplied label with the highest nonzero
\* keyword count, the first-declared on a tie; the last element of the list
\* when no supplied label has a hit; 'Others' when the list is empty. The
\* result is a member of every non-empty list.
C4_ClassifierResult ==
    CategoryMatched =>
        LET top == TopLabels
        IN  /\ top # {} => out.val = category_keywords[MinOf(top)].category
            /\ (top = {} /\ available_categories # <<>>) =>
                   out.val = available_categories[Len(available_categories)]
            /\ available_categories = <<>> => out.val = "Others"
            /\ available_categories # <<>> =>
                   \E i \in 1..Len(available_categories) : available_categories[i] = out.val
            /\ (text = <<"b","e","n","s","i","n"," ","m","o","t","o","r"," ","5","0","r","b">>
                    /\ 2 \in SuppliedLabels) => out.val = "Transportation"

\* C4 witness: two supplied labels tie on the highest count and the
\* first-declared one is returned
C4_Witness ==
    /\ CategoryMatched
    /\ Cardinality(TopLabels) >= 2
    /\ out.val = "Food & Dining"


-----------------------------------------------------------------------------
\* Properties of parse_expense_text and the text handler (SpecHandle)

\* the last message was parsed by parse_expense_text and the call is over
ParseReturned == calls > 0 /\ pc = "idle" /\ out.op = "parse_expense_text"

\* the text has no date expression: no digit and no date keyword
NoDateExpression(t) == NoDigit(t) /\ ~AnyIn(t, DateKeywords)

\* C1: when the remote call raises, answers without a JSON object or
\* answers malformed JSON, parse_expense_text does not raise and returns the
\* record of _fallback_parse: location 'Unknown', amount 0 when the text has
\* no number, the reference date when the text has no date expression.
C1_RemoteFailureFallsBack ==
    (ParseReturned /\ response.kind \in {"raise", "no_json", "malformed"}) =>
        /\ ~out.ret.raised
        /\ out.ret.val = AIProcessor_fallback_parse(text, ref, user_name)
        /\ out.ret.val.location = Str(<<"U", "n", "k", "n", "o", "w", "n">>)
        /\ NoDigit(Msg) => out.ret.val.amount = Num(0)
        /\ NoDateExpression(Msg) => out.ret.val.transaction_date = Str(StrfDate(ref))

\* C1 witness: the remote call raised on a text with no number and no date
C1_Witness ==
    /\ ParseReturned
    /\ response.kind = "raise"
    /\ NoDigit(Msg) /\ NoDateExpression(Msg)
    /\ ~out.ret.raised
    /\ out.ret.val.amount = Num(0)
    /\ out.ret.val.transaction_date = Str(<<"2", "0", "2", "5", "-", "0", "8", "-", "1", "0">>)

RecordKeys == {"description", "amount", "location", "category", "transaction_date", "input_by"}
IsSet(v) == v.t \notin {"missing", "null"}

\* C2: every record parse_expense_text returns that is not an error marker
\* has description, amount, location, category, transaction_date and
\* input_by set, and its amount is a non-negative number.
C2_CompleteRecord ==
    (ParseReturned /\ ~out.ret.raised /\ ~IsError(out.ret.val)) =>
        /\ \A k \in RecordKeys : IsSet(out.ret.val[k])
        /\ out.ret.val.amount.t = "num"
        /\ out.ret.val.amount.n >= 0

\* the list the sheet holds: what get_categories answers at this moment
CurrentCategories ==
    IF service = "ok" /\ Len(m_category) > 1
    THEN [i \in 1..(Len(m_category) - 1) |-> m_category[i + 1]]
    ELSE DefaultCategories

\* C3: the category of every record handed to the store is a member of the
\* category set that is current when the record is assembled.
C3_CategoryInCurrentSet ==
    [][(calls' = calls + 1 /\ ~out'.ret.raised) =>
           InList(expense_data'.category.s, CurrentCategories)]_vars

-----------------------------------------------------------------------------
\* Properties of the receipt extractors (SpecReceipt)

ReceiptLinesRead == SplitLines(text)

\* the four printed forms of 18 March 2022
PrintedDates == {<<"1", "8", "/", "0", "3", "/", "2", "0", "2", "2", " ", "1", "0", ":", "3", "2">>, <<"1", "8", "-", "0", "3", "-", "2", "2">>, <<"1", "8", " ", "M", "a", "r", "e", "t", " ", "2", "0", "2", "2">>, <<"2", "0", "2", "2", "-", "0", "3", "-", "1", "8">>}
PrintedDateCount ==
    Cardinality({i \in 1..Len(ReceiptLinesRead) : ReceiptLinesRead[i] \in PrintedDates})

\* C14: when the receipt holds one printed date, in any of the forms
\* DD/MM/YYYY, DD-MM-YY, 'DD month YYYY' or YYYY-MM-DD,
\* _extract_receipt_date_smart returns that calendar date; when it holds
\* none, the reference date.
C14_PrintedReceiptDate ==
    (pc = "done" /\ out.op = "_extract_receipt_date_smart") =>
        /\ PrintedDateCount = 1 => out.val = <<"2", "0", "2", "2", "-", "0", "3", "-", "1", "8">>
        /\ PrintedDateCount = 0 => out.val = StrfDate(ref)

\* a line made of digits, white space and date, time or number punctuation
PureNumeric(l) ==
    \A i \in 1..Len(l) : IsDigit(l[i]) \/ IsSpace(l[i]) \/ l[i] \in {"-", "/", ":", ".", ","}
BoilerplateTokens ==
    {<<"r", "e", "c", "e", "i", "p", "t">>, <<"s", "t", "r", "u", "k">>, <<"b", "o", "n">>, <<"k", "a", "s", "i", "r">>, <<"t", "o", "t", "a", "l">>, <<"s", "u", "b", "t", "o", "t", "a", "l">>, <<"t", "a", "x">>}
\* the rejections the claim lists
ListedRejection(l) ==
    \/ PureNumeric(l)
    \/ Len(l) < 3
    \/ LowerText(l) \in BoilerplateTokens
\* the rejections the code makes besides: a line that starts with
\* kasir/cashier or with a clock time, and a reference code (two or three
\* letters followed by digits only)
FurtherRejection(l) ==
    \/ \E w \in {<<"k", "a", "s", "i", "r">>, <<"c", "a", "s", "h", "i", "e", "r">>} :
          Len(l) >= Len(w) /\ SubSeq(LowerText(l), 1, Len(w)) = w
    \/ \E a \in 1..2 : Len(l) >= a + 3 /\ PureNumeric(SubSeq(l, 1, a + 3))
                          /\ l[a + 1] = ":" /\ \A i \in (1..(a + 3)) \ {a + 1} : IsDigit(l[i])
    \/ \E a \in 2..3 : /\ Len(l) > a
                       /\ \A i \in 1..Len(l) : IF i <= a THEN IsAlpha(l[i]) ELSE IsDigit(l[i])
LooksLikeName(l) ==
    /\ Len(l) >= 4
    /\ \E i \in 1..(Len(l) - 2) : \A j \in i..(i + 2) : IsAlpha(l[j])
\* the title-cased first line of the header area that is accepted, given
\* which of the header lines are accepted
FirstAccepted(accepted) ==
    IF accepted = {} THEN <<"U", "n", "k", "n", "o", "w", "n">> ELSE Title(ReceiptLinesRead[MinOf(accepted)])
HeaderArea == {i \in 1..Len(ReceiptLinesRead) : i <= 5}

\* C15 as stated: _extract_merchant_name returns the title-cased first of
\* the first five lines that is not a pure numeric/date/time string, not
\* shorter than 3 characters, not a boilerplate token, and that has 3
\* consecutive letters and length at least 4; 'Unknown' when there is none.
C15_MerchantAsStated ==
    (pc = "done" /\ out.op = "_extract_merchant_name") =>
        out.val = FirstAccepted({i \in HeaderArea :
                      ~ListedRejection(ReceiptLinesRead[i]) /\ LooksLikeName(ReceiptLinesRead[i])})

\* C15 amended: the same with the further rejections of the code: lines
\* that start with kasir/cashier or with a clock time, and reference codes.
\* ['18/03/2022 10:32', 'BREADTALK PONDOK INDAH'] gives 'Breadtalk Pondok Indah'.
C15_MerchantName ==
    (pc = "done" /\ out.op = "_extract_merchant_name") =>
        /\ out.val = FirstAccepted({i \in HeaderArea :
                        /\ ~ListedRejection(ReceiptLinesRead[i])
                        /\ ~FurtherRejection(ReceiptLinesRead[i])
                        /\ LooksLikeName(ReceiptLinesRead[i])})
        /\ text = <<"1", "8", "/", "0", "3", "/", "2", "0", "2", "2", " ", "1", "0", ":", "3", "2">> \o <<"\n">> \o <<"B", "R", "E", "A", "D", "T", "A", "L", "K", " ", "P", "O", "N", "D", "O", "K", " ", "I", "N", "D", "A", "H">>
              => out.val = <<"B", "r", "e", "a", "d", "t", "a", "l", "k", " ", "P", "o", "n", "d", "o", "k", " ", "I", "n", "d", "a", "h">>

\* C15 witness: the first five lines are all rejected and the sixth is a
\* merchant name, so the result is 'Unknown'
C15_Witness ==
    /\ pc = "done" /\ out.op = "_extract_merchant_name"
    /\ Len(ReceiptLinesRead) >= 6
    /\ ReceiptLinesRead[5] = <<"0", "8", "1", "2", "3", "4", "5", "6", "7", "8", "9", "0">>
    /\ ReceiptLinesRead[6] = <<"A", "L", "F", "A", "M", "A", "R", "T">>
    /\ out.val = <<"U", "n", "k", "n", "o", "w", "n">>

\* a line with a contact keyword or with ten or more digits in a row
PhoneLine(l) ==
    \/ \E w \in {<<"p", "h", "o", "n", "e">>, <<"h", "p">>, <<"t", "e", "l">>, <<"w", "a">>, <<"w", "h", "a", "t", "s", "a", "p", "p">>, <<"c", "o", "n", "t", "a", "c", "t">>} :
          Contains(LowerText(l), w)
    \/ \E i \in 1..(Len(l) - 9) : \A j \in i..(i + 9) : IsDigit(l[j])
\* the numbers that can be read on the lines that are no phone lines
NumbersOffPhoneLines ==
    UNION {FindNumbers(ReceiptLinesRead[i], 1) \cup {SearchTotalNumber(ReceiptLinesRead[i])} :
              i \in {k \in 1..Len(ReceiptLinesRead) : ~PhoneLine(ReceiptLinesRead[k])}}

\* C18: the amount _extract_total_amount returns is 0 or a number of a
\* line that is no phone line; ['ALFAMART', 'Total: 25.200',
\* 'Tel: 081234567890'] gives 25200.
C18_NoPhoneDigits ==
    (pc = "done" /\ out.op = "_extract_total_amount") =>
        /\ out.val = 0 \/ out.val \in NumbersOffPhoneLines
        /\ text = <<"A", "L", "F", "A", "M", "A", "R", "T">> \o <<"\n">> \o <<"T", "o", "t", "a", "l", ":", " ", "2", "5", ".", "2", "0", "0">> \o <<"\n">> \o <<"T", "e", "l", ":", " ", "0", "8", "1", "2", "3", "4", "5", "6", "7", "8", "9", "0">>
              => out.val = 25200

-----------------------------------------------------------------------------
\* Properties of the free-text location extractor (SpecLocation)

\* the phrase after the first 'word ' of t: the text up to the next digit
\* or the end of the string, without the white space around it (<<>> when
\* t has no 'word ')
PhraseAfter(t, word, gap) ==
    LET n  == Len(word)
        at == {s \in 1..(Len(t) - n + 1 - gap) :
                 HasAt(t, s, word) /\ (gap = 0 \/ IsSpace(t[s + n]))}
    IN  IF at = {} THEN <<>>
        ELSE Strip(SubSeq(t, MinOf(at) + n, FirstDigitOrEnd(t, MinOf(at) + n) - 1))
\* 'di X', 'ke X', 'dari X' and '@X', in the order stated
Phrases ==
    << PhraseAfter(Msg, <<"d", "i">>, 1), PhraseAfter(Msg, <<"k", "e">>, 1),
       PhraseAfter(Msg, <<"d", "a", "r", "i">>, 1), PhraseAfter(Msg, <<"@">>, 0) >>
PhrasesFound == {i \in 1..4 : Phrases[i] # <<>>}

\* C16: when the text holds 'di X', 'ke X', 'dari X' or '@X',
\* extract_location_from_text returns X title-cased, X being the text after
\* the first such word (in that order) up to the next digit or the end of
\* the string; 'Unknown' is returned only when the text holds none of them.
C16_LocationPhrase ==
    (pc = "done" /\ out.op = "extract_location_from_text") =>
        /\ PhrasesFound # {} => out.val = Title(Phrases[MinOf(PhrasesFound)])
        /\ out.val = <<"U", "n", "k", "n", "o", "w", "n">> => PhrasesFound = {}

-----------------------------------------------------------------------------
\* Properties of the fallback parsers (SpecFallback)

FallbackParsed == pc = "done" /\ out.op \in {"AIProcessor._fallback_parse", "main._fallback_parse"}

\* C17: the record the fallback parsers build from a free text carries the
\* location extract_location_from_text finds in the text and the category
\* match_category_by_keywords gives for the text, that location and the
\* default category list; 'bensin motor 50rb di shell' on 2025-08-10 gives
\* amount 50000, location 'Shell', category 'Transportation' and
\* transaction_date '2025-08-10'.
C17_FallbackUsesExtractors ==
    FallbackParsed =>
        LET location == extract_location_from_text(text)
        IN  /\ out.val.location = Str(location)
            /\ out.val.category = Label(match_category_by_keywords(text, location, DefaultCategories))
            /\ text = <<"b", "e", "n", "s", "i", "n", " ", "m", "o", "t", "o", "r", " ", "5", "0", "r", "b", " ", "d", "i", " ", "s", "h", "e", "l", "l">> =>
                  /\ out.val.amount = Num(50000)
                  /\ out.val.location = Str(<<"S", "h", "e", "l", "l">>)
                  /\ out.val.category = Label("Transportation")
                  /\ out.val.transaction_date = Str(<<"2", "0", "2", "5", "-", "0", "8", "-", "1", "0">>)

-----------------------------------------------------------------------------
\* Properties of the provenance tag (SpecHandle)

\* handle_text has stored a record for the last message
RecordStored == calls > 0 /\ pc = "idle" /\ ~out.ret.raised
\* the remote service answered with a JSON object and the record was built
\* from it
GuessUsed ==
    /\ response.kind = "json"
    /\ ~AcceptGuess(response.data, text, ref, user_name, available_categories).raised

\* C19: a record is tagged 'Gemini AI' only if it was built from the remote
\* service's guess; a record built by a fallback parser, because the remote
\* call raised or its response held no JSON object, is tagged
\* 'Fallback Parser'.
C19_ProvenanceTag ==
    RecordStored =>
        /\ expense_data.source = Label("Gemini AI") => GuessUsed
        /\ ~GuessUsed => expense_data.source = Label("Fallback Parser")

-----------------------------------------------------------------------------
\* Properties of the two keyword classifiers (SpecClassifiers)

\* C20: on every text, location and category list,
\* _smart_categorize_fallback returns what match_category_by_keywords
\* returns: the supplied label with the most keyword hits, the first
\* declared on a tie.
C20_ClassifiersAgree ==
    (pc = "done" /\ out.op = "_smart_categorize_fallback") =>
        out.val = match_category_by_keywords(text, loc, available_categories)

-----------------------------------------------------------------------------
\* Properties of the fallback parsers' amount (SpecFallback)

\* the text holds one digit run, and neither 'ribu', 'rb' nor the letter 'k'
OneBareNumber ==
    /\ Cardinality(RunStarts(Msg)) = 1
    /\ ~AnyIn(Msg, {<<"r", "i", "b", "u">>, <<"r", "b">>, <<"k">>})

\* C21: when the only number of the text is a bare digit run N and the text
\* holds neither 'ribu', 'rb' nor 'k', both fallback parsers set the amount
\* to N ('25000' gives 25000), and parse_indonesian_amount gives N too.
C21_BareDigitsAmount ==
    (FallbackParsed /\ OneBareNumber) =>
        LET N == RunValue(Msg, CHOOSE i \in RunStarts(Msg) : TRUE)
        IN  /\ out.val.amount = Num(N)
            /\ parse_indonesian_amount(text) = N

-----------------------------------------------------------------------------
\* Properties of the Date Resolver's rule order (SpecDate)

\* C22: a text with a today-class keyword ('hari ini', 'today', 'tadi',
\* 'barusan') and no yesterday, day-before-yesterday or tomorrow keyword
\* resolves to the reference date in both resolvers, also when it holds a
\* weekday name or a numeric date.
C22_TodayKeywordFirst ==
    (DateResolved /\ Alone(TodayClass)) => out.val = StrfDate(ref)

\* the years written in the messages, and the year a written year stands for
YearTexts == {<<"2", "2">>, <<"2", "0", "2", "2">>}
ResolvedYear(ys) ==
    IF ToInt(ys) >= 100 THEN ToInt(ys)
    ELSE IF ToInt(ys) < 50 THEN 2000 + ToInt(ys) ELSE 1900 + ToInt(ys)

\* C23: for a text whose only date expression is DD/MM/YY or DD/MM/YYYY
\* naming an existing day, _determine_transaction_date returns that year,
\* month and day when the year (two digits below 50 read as 20xx, else 19xx)
\* lies in 2020..2030, and the reference date otherwise.
C23_DayMonthYear ==
    (pc = "done" /\ out.op = "_determine_transaction_date" /\ ~AnyIn(Msg, DateKeywords)) =>
        \A d \in 1..31, m \in 1..12, ys \in YearTexts :
            (/\ DigitSpan = Dec(d) \o <<"/">> \o Dec(m) \o <<"/">> \o ys
             /\ IsDate(ResolvedYear(ys), m, d)) =>
                out.val = IF ResolvedYear(ys) \in 2020..2030
                          THEN FormatYMD(ResolvedYear(ys), m, d)
                          ELSE StrfDate(ref)

-----------------------------------------------------------------------------
\* Properties of the day-of-month rule (SpecDayOnly)

\* the month before the month of date d, as <<year, month>>
PreviousMonth(d) == IF d[2] = 1 THEN <<d[1] - 1, 12>> ELSE <<d[1], d[2] - 1>>

\* C24: 'tanggal N' and 'tgl N' with 1 <= N <= 31 resolve to day N of the
\* reference's month when that day is not after the reference, and to day N
\* of the month before otherwise, December of the year before when the
\* reference is in January.
C24_DayOfMonth ==
    (pc = "done" /\ out.op = "_determine_transaction_date") =>
        \A N \in 1..31 :
            Msg \in {<<"t", "a", "n", "g", "g", "a", "l", " ">> \o Dec(N), <<"t", "g", "l", " ">> \o Dec(N)} =>
                out.val = IF N <= ref[3]
                          THEN FormatYMD(ref[1], ref[2], N)
                          ELSE FormatYMD(PreviousMonth(ref)[1], PreviousMonth(ref)[2], N)

-----------------------------------------------------------------------------
\* Properties of the receipt record (SpecRecord)

ReceiptParsed == pc = "done" /\ out.op = "_parse_receipt_structure"

\* C25: the location of the record _parse_receipt_structure returns is what
\* _extract_merchant_name gives for the lines: the merchant line with every
\* word capitalised, or 'Unknown'; ['18/03/2022 10:32',
\* 'BREADTALK PONDOK INDAH'] gives 'Breadtalk Pondok Indah'.
C25_ReceiptLocationTitleCased ==
    ReceiptParsed =>
        /\ out.val.location = extract_merchant_name(ReceiptLinesRead)
        /\ text = <<"1", "8", "/", "0", "3", "/", "2", "0", "2", "2", " ", "1", "0", ":", "3", "2">> \o <<"\n">> \o <<"B", "R", "E", "A", "D", "T", "A", "L", "K", " ", "P", "O", "N", "D", "O", "K", " ", "I", "N", "D", "A", "H">>
              => out.val.location = <<"B", "r", "e", "a", "d", "t", "a", "l", "k", " ", "P", "o", "n", "d", "o", "k", " ", "I", "n", "d", "a", "h">>

-----------------------------------------------------------------------------
\* Properties of the amount selection (SpecReceipt)

AmountExtracted == pc = "done" /\ out.op = "_extract_total_amount"

\* the values of the candidates of each kind
TotalLineValues == {a.amt : a \in TotalLineAmounts(ReceiptLinesRead)}
BottomLineValues == {a.amt : a \in BottomLineAmounts(ReceiptLinesRead)}
CurrencyValues == {a.amt : a \in RpAmounts(text)}
\* the bottom-line candidates of lines without a run of ten or more digits
PlainBottomLineValues ==
    {a.amt : a \in {x \in BottomLineAmounts(ReceiptLinesRead) : ~HasPhoneRun(x.line)}}
\* the largest of the first set of the sequence that is not empty, else 0
FirstMax(sets) ==
    LET filled == {i \in 1..Len(sets) : sets[i] # {}}
    IN  IF filled = {} THEN 0 ELSE MaxOf(sets[MinOf(filled)])

\* C26 as stated: _extract_total_amount returns the largest total-line
\* candidate, else the largest bottom-line candidate, else the largest
\* currency-marked candidate, else 0; a result that is not 0 is at least
\* 100, and with a total-line candidate no larger value is returned.
C26_SelectionAsStated ==
    AmountExtracted =>
        /\ out.val = FirstMax(<<TotalLineValues, BottomLineValues, CurrencyValues>>)
        /\ out.val # 0 => out.val >= 100
        /\ TotalLineValues # {} => out.val <= MaxOf(TotalLineValues)

\* C26 amended: the bottom-line step takes only candidates of lines without
\* a run of ten or more digits; the other bottom-line candidates are taken,
\* when within 100..10000000, after the currency-marked ones.
C26_AmountSelection ==
    AmountExtracted =>
        /\ out.val = FirstMax(<<TotalLineValues, PlainBottomLineValues, CurrencyValues,
                                {v \in BottomLineValues : v >= 100 /\ v <= 10000000}>>)
        /\ out.val # 0 => out.val >= 100
        /\ TotalLineValues # {} => out.val <= MaxOf(TotalLineValues)

\* C26 witness: the cash line holds a larger value than the total line, and
\* the total is returned
C26_Witness ==
    /\ AmountExtracted
    /\ text = <<"T", "o", "t", "a", "l", ":", " ", "2", "5", ".", "2", "0", "0">> \o <<"\n">> \o <<"T", "u", "n", "a", "i", " ", "5", "0", ".", "0", "0", "0">>
    /\ TotalLineValues = {25200}
    /\ 50000 \in BottomLineValues
    /\ out.val = 25200

-----------------------------------------------------------------------------
\* Properties of the total-line candidate (SpecTotalLine)

\* the first number of the one line read: from its first digit to the last
\* digit of the run of digits and separators that starts there
FirstNumberSpan ==
    LET l  == ReceiptLinesRead[1]
        at == {i \in 1..Len(l) : IsDigit(l[i])}
        a  == MinOf(at)
        b  == MaxOf({j \in a..Len(l) :
                        /\ IsDigit(l[j])
                        /\ \A i \in a..j : IsDigit(l[i]) \/ l[i] \in {".", ","}})
    IN  IF at = {} THEN <<>> ELSE SubSeq(l, a, b)
\* it is a digit run or a number with thousands separators
PlainOrGrouped(g) == g # <<>> /\ (AllDigits(g, 1, Len(g)) \/ WholeGrouped(g))

\* C27: on a line with a total indicator whose first number, a digit run or
\* a number with '.'/',' thousands separators, has the value N >= 100, the
\* total-line candidate is N, and so is the amount returned;
\* 'Total: 25.000', 'Total 25,000' and 'TOTAL 25000' give 25000.
C27_TotalLineNumber ==
    (/\ AmountExtracted
     /\ Len(ReceiptLinesRead) = 1
     /\ AnyIn(LowerText(ReceiptLinesRead[1]), total_indicators)
     /\ PlainOrGrouped(FirstNumberSpan)
     /\ ToInt(RemoveSeparators(FirstNumberSpan)) >= 100) =>
        /\ TotalLineValues = {ToInt(RemoveSeparators(FirstNumberSpan))}
        /\ out.val = ToInt(RemoveSeparators(FirstNumberSpan))
        /\ text \in {<<"T", "o", "t", "a", "l", ":", " ", "2", "5", ".", "0", "0", "0">>, <<"T", "o", "t", "a", "l", " ", "2", "5", ",", "0", "0", "0">>, <<"T", "O", "T", "A", "L", " ", "2", "5", "0", "0", "0">>} => out.val = 25000

-----------------------------------------------------------------------------
\* Properties of the start-up thread (FairSpecServices)

\* C28: once the start-up thread runs and the sheets service was built, the
\* four readiness flags all become true, from then on a text message is
\* forwarded to handle_text, and bot_ready is never true while another flag
\* is false.
C28_ServicesBecomeReady ==
    /\ (pc # "SheetsManager" /\ service = "ok") ~> all_ready(service_state)
    /\ [][all_ready(service_state) /\ calls' = calls + 1
            => out'.val.reply = "handle_text"]_vars
    /\ [](service_state.bot_ready =>
            /\ service_state.sheets_ready
            /\ service_state.ai_ready
            /\ service_state.vision_ready)

-----------------------------------------------------------------------------
\* Properties of the IDs written to the sheet (SpecSheet)

\* C29: whatever the order and the overlap of the add_expense calls, and
\* also when a read of the ID column failed, every ID in the sheet is the
\* largest ID that was there when its row was written plus 1, and the IDs
\* are pairwise distinct.
C29_IdsDistinctAndNext ==
    /\ \A i \in 1..Len(catatan) :
          catatan[i].id = MaxOf({0} \cup {catatan[j].id : j \in 1..(i - 1)}) + 1
    /\ \A i, j \in 1..Len(catatan) : i # j => catatan[i].id # catatan[j].id

-----------------------------------------------------------------------------
\* Properties of the keep-alive loop (FairSpecKeepAlive)

\* C30: once a signal has set running to False, run returns, wherever it
\* was (in a ping, in the wake-up sequence, in the wait, in the sleep of the
\* hours off, in the back-off), and the loop test never starts a further
\* cycle.
C30_RunReturns ==
    /\ ~running ~> pc.at = "returned"
    /\ [][(~running /\ pc.at = "while") => pc'.at = "returned"]_vars

\* run has returned after a signal that came during the wake-up sequence
C30_Witness ==
    /\ pc.at = "returned"
    /\ ~running
    /\ out = [op |-> "signal_handler", at |-> "wake_up_sequence"]

====
